---- MODULE Spec2Model ----
(***************************************************************************)
(* Barcode Battler: the turn-based battle engine (BattleEngine), the AI    *)
(* opponent (AIOpponent) and the difficulty progression                    *)
(* (DifficultyManager), modelled as one state machine.                     *)
(*                                                                         *)
(* Numbers.  The JavaScript code computes in floating point.  The model    *)
(* keeps every quantity an integer: probabilities and random draws are in  *)
(* thousandths (a draw r stands for r/1000 in [0,1)), multipliers are      *)
(* applied as exact fractions (1.3 = 13/10, 1.5 = 3/2) and Math.floor is   *)
(* integer division.                                                       *)
(***************************************************************************)
EXTENDS Integers, Sequences, FiniteSets, TLC

(***************************************************************************)
(* Bounds of the model.                                                    *)
(***************************************************************************)
\* results recorded by the DifficultyManager before its actions stop
MaxRecords == 16
\* losses recorded per difficulty before further losses are not explored
MaxLosses == 1
\* battle actions executed in one run of Spec
MaxActions == 3
\* battles initiated in one run of Spec
MaxBattles == 2
\* battle actions executed in the one battle of a run of SpecDeep
MaxDeepActions == 7
\* results counted by a manager that started from stored progress (SpecLoad)
MaxLoadRecords == 6
\* battle actions executed in the one battle of a run of SpecStats
MaxStatActions == 3
\* the largest attack and defense stat calculateDamage is applied to
MaxStat == 12
\* battle actions executed in the one battle of a run of SpecReward
MaxRewardActions == 2
\* leveling calls in a run of SpecLevel
MaxLevelCalls == 2
\* collection calls in a run of SpecCollection
MaxCollectionCalls == 3
\* calls of one closure of createSeededRandom in a run of SpecProcessor
MaxRandomCalls == 8
\* generation calls in a run of SpecGenerate
MaxGenerateCalls == 3
\* battle actions in a run that follows the caller's objects
MaxCopyActions == 3
\* makeDecision calls on one AIOpponent
MaxDecisions == 11
\* player actions in a memory handed to the pattern analysis
MaxObserved == 5
\* the time a run of SpecUI lasts, in units of 300 ms
MaxTicks == 7
\* battles started in a run of SpecUI
MaxUIBattles == 2
\* battle actions executed in a run of SpecUI
MaxUIActions == 2

(***************************************************************************)
(* DifficultyManager                                                       *)
(***************************************************************************)
Difficulties == {"easy", "medium", "hard"}

\* the value null / undefined of a difficulty argument
NoDifficulty == "null"

\* a string that is no key of difficultyStats
BadDifficulty == "nightmare"

\* progressionRequirements.medium.battlesWon
MediumBattlesWon == 5
\* progressionRequirements.hard.battlesWon
HardBattlesWon == 15
\* progressionRequirements.hard.mediumWins
HardMediumWins == 8

Includes(seq, x) == \E i \in 1..Len(seq) : seq[i] = x

ZeroCounts == [d \in Difficulties |-> 0]

\* this.battleStats: undefined (never assigned), or an object holding the
\* keys in `keys`; wins/losses of a key that is absent are kept 0 and unused.
UndefinedStats == [defined |-> FALSE, keys |-> {}, wins |-> ZeroCounts, losses |-> ZeroCounts]
EmptyStats == [defined |-> TRUE, keys |-> {}, wins |-> ZeroCounts, losses |-> ZeroCounts]
FreshStats == [defined |-> TRUE, keys |-> Difficulties, wins |-> ZeroCounts, losses |-> ZeroCounts]

\* the fields the constructor sets before loadProgress
\* unlockedDifficulties is an array, kept as the sequence of its elements;
\* when loadProgress took a JSON string for it, unlockedIsString is TRUE and
\* the sequence holds that one string.
NewManager ==
  [currentDifficulty |-> "easy",
   unlockedDifficulties |-> <<"easy">>,
   unlockedIsString |-> FALSE,
   battleStats |-> UndefinedStats]

\* localStorage without the key barcodeBattler_difficultyProgress
\* corrupt: the item is no JSON text, or the JSON value null.  unlockedKind is
\* the JSON type of the unlockedDifficulties field: "array", "string",
\* "undefined" (absent or null) or "other" (a number or an object).
NoStorage ==
  [present |-> FALSE,
   corrupt |-> FALSE,
   currentDifficulty |-> "easy",
   unlockedKind |-> "array",
   unlockedDifficulties |-> <<"easy">>,
   battleStats |-> EmptyStats]

\* String.prototype.includes on the strings the model stores
StringIncludes(text, d) == text = d \/ (text = "queasy" /\ d = "easy")

isValidDifficulty(d) == d \in Difficulties

isDifficultyUnlocked(m, d) ==
  IF m.unlockedIsString THEN StringIncludes(m.unlockedDifficulties[1], d)
  ELSE Includes(m.unlockedDifficulties, d)

\* Object.values(battleStats).reduce(total + (stats.wins || 0))
getTotalWins(m) ==
  IF ~m.battleStats.defined THEN 0
  ELSE LET w(d) == IF d \in m.battleStats.keys THEN m.battleStats.wins[d] ELSE 0
       IN w("easy") + w("medium") + w("hard")

TotalLosses(m) ==
  m.battleStats.losses["easy"] + m.battleStats.losses["medium"] + m.battleStats.losses["hard"]

\* unlockedDifficulties.push(d) is reached and throws: a string has no push
unlockThrows(m, d) ==
  isValidDifficulty(d) /\ ~isDifficultyUnlocked(m, d) /\ m.unlockedIsString

unlockDifficulty(m, d) ==
  IF ~isValidDifficulty(d) THEN m
  ELSE IF isDifficultyUnlocked(m, d) THEN m
  ELSE IF m.unlockedIsString THEN m
  ELSE [m EXCEPT !.unlockedDifficulties = Append(@, d)]

checkMedium(m) ==
  IF ~isDifficultyUnlocked(m, "medium") /\ getTotalWins(m) >= MediumBattlesWon
  THEN unlockDifficulty(m, "medium") ELSE m

\* a variant that drops the medium-wins condition of the hard unlock
checkHardOnTotalOnly(m) ==
  IF ~isDifficultyUnlocked(m, "hard") /\ getTotalWins(m) >= HardBattlesWon
  THEN unlockDifficulty(m, "hard") ELSE m

checkHard(m) ==
  LET mediumWins == IF "medium" \in m.battleStats.keys THEN m.battleStats.wins["medium"] ELSE 0
  IN IF ~isDifficultyUnlocked(m, "hard")
        /\ getTotalWins(m) >= HardBattlesWon /\ mediumWins >= HardMediumWins
     THEN unlockDifficulty(m, "hard") ELSE m

checkDifficultyUnlocks(m) == checkHard(checkMedium(m))

\* checkDifficultyUnlocks reaches an unlockDifficulty call that throws
checkThrows(m) ==
  \/ getTotalWins(m) >= MediumBattlesWon /\ unlockThrows(m, "medium")
  \/ /\ getTotalWins(m) >= HardBattlesWon
     /\ "medium" \in m.battleStats.keys
     /\ m.battleStats.wins["medium"] >= HardMediumWins
     /\ unlockThrows(m, "hard")

\* JSON.stringify of {currentDifficulty, unlockedDifficulties, battleStats || {}}
saveProgress(m) ==
  [present |-> TRUE,
   corrupt |-> FALSE,
   currentDifficulty |-> m.currentDifficulty,
   unlockedKind |-> IF m.unlockedIsString THEN "string" ELSE "array",
   unlockedDifficulties |-> m.unlockedDifficulties,
   battleStats |-> IF m.battleStats.defined THEN m.battleStats ELSE EmptyStats]

\* the catch block of loadProgress
LoadFailed ==
  [currentDifficulty |-> "easy",
   unlockedDifficulties |-> <<"easy">>,
   unlockedIsString |-> FALSE,
   battleStats |-> EmptyStats]

\* a variant of loadProgress that takes the stored list as it is
loadProgressAsStored(m, st) ==
  IF ~st.present THEN m
  ELSE [currentDifficulty |-> IF isValidDifficulty(st.currentDifficulty)
                              THEN st.currentDifficulty ELSE "easy",
        unlockedDifficulties |-> st.unlockedDifficulties,
        unlockedIsString |-> st.unlockedKind = "string",
        battleStats |-> st.battleStats]

\* loadProgress applied to the fields the constructor has set
loadProgress(m, st) ==
  IF ~st.present THEN m
  ELSE IF st.corrupt THEN LoadFailed
  ELSE LET cur == st.currentDifficulty
           unl == IF st.unlockedKind = "undefined" THEN <<"easy">> ELSE st.unlockedDifficulties
           loaded(list, isString) ==
             [currentDifficulty |-> IF isValidDifficulty(cur) THEN cur ELSE "easy",
              unlockedDifficulties |-> list,
              unlockedIsString |-> isString,
              battleStats |-> st.battleStats]
       IN CASE st.unlockedKind = "other" -> LoadFailed  \* includes is not a function
            [] st.unlockedKind = "string" ->
                 IF StringIncludes(unl[1], "easy") THEN loaded(unl, TRUE)
                 ELSE LoadFailed                       \* push is not a function
            [] OTHER ->
                 loaded(IF Includes(unl, "easy") THEN unl ELSE Append(unl, "easy"), FALSE)

\* recordBattleResult: the manager and the storage after the call, and whether
\* the call threw.  won is "true", "false" or "undefined".
recordBattleResult(m, st, won, difficulty) ==
  IF won \notin {"true", "false"}
  THEN [dm |-> m, storage |-> st, threw |-> FALSE]
  ELSE LET m1 == IF m.battleStats.defined THEN m ELSE [m EXCEPT !.battleStats = FreshStats]
           d == IF difficulty = NoDifficulty THEN m1.currentDifficulty ELSE difficulty
       IN IF d \notin m1.battleStats.keys
          THEN \* this.battleStats[difficulty] is undefined: reading .wins throws
               [dm |-> m1, storage |-> st, threw |-> TRUE]
          ELSE LET m2 == IF won = "true"
                         THEN [m1 EXCEPT !.battleStats.wins[d] = @ + 1]
                         ELSE [m1 EXCEPT !.battleStats.losses[d] = @ + 1]
                   m3 == checkDifficultyUnlocks(m2)
               IN IF checkThrows(m2)
                  THEN [dm |-> m2, storage |-> st, threw |-> TRUE]
                  ELSE [dm |-> m3, storage |-> saveProgress(m3), threw |-> FALSE]

(***************************************************************************)
(* DataValidation and creatures                                            *)
(***************************************************************************)
\* A creature as the battle reads it.  bonusCrit is
\* difficultyBonuses.criticalHitChance in thousandths, -1 when the creature
\* carries no difficultyBonuses.
Creature(nm, hp, maxHp, attack, defense, speed, level, isOpp, bonus) ==
  [name |-> nm, hp |-> hp, maxHp |-> maxHp, attack |-> attack, defense |-> defense,
   speed |-> speed, level |-> level, isOpponent |-> isOpp, bonusCrit |-> bonus]

isValidCreatureStats(c) ==
  /\ c.hp >= 0 /\ c.maxHp >= 0 /\ c.attack >= 0 /\ c.defense >= 0 /\ c.speed >= 0
  /\ c.hp <= c.maxHp

isValidCreature(c) ==
  /\ c.level >= 1
  /\ isValidCreatureStats(c)

\* creatures over a grid of stats: attack, defense, and hp full or low
StatCreatures(isOpp) ==
  {Creature(IF isOpp THEN "Foe" ELSE "Hero", h[1], h[2], a, d, 10, 6, isOpp, IF isOpp THEN 50 ELSE -1) :
     h \in {<<10, 10>>, <<3, 12>>}, a \in {0, 7}, d \in {0, 9}}

\* creatures of several levels that fall to the first hit
RewardCreatures(isOpp) ==
  {Creature(IF isOpp THEN "Foe" ELSE "Hero", 1, 10, 5, 0, 10, lvl, isOpp, IF isOpp THEN 50 ELSE -1) :
     lvl \in IF isOpp THEN {1, 2, 5} ELSE {1, 3}}

\* creatures a caller can hand to initiateBattle
Sturdy == Creature("Sturdy", 4, 4, 1, 2, 10, 1, FALSE, -1)
Scrapper == Creature("Scrapper", 2, 12, 5, 1, 10, 6, FALSE, -1)
Fainted == Creature("Fainted", 0, 12, 5, 1, 10, 6, FALSE, -1)
Broken == Creature("Broken", 5, 4, 1, 1, 10, 1, FALSE, -1)
Rival == Creature("Rival", 4, 4, 1, 2, 11, 1, TRUE, 50)
Husk == Creature("Husk", 0, 10, 1, 1, 13, 1, TRUE, 100)
Wreck == Creature("Wreck", 3, 3, 1, 1, 10, 0, TRUE, 50)

\* the calls of initiateBattle a run of Spec chooses from:
\* player creature, opponent creature, difficulty argument
BattleSetups ==
  {<<Scrapper, Rival, NoDifficulty>>,
   <<Fainted, Rival, "medium">>,
   <<Scrapper, Husk, "hard">>,
   <<Fainted, Husk, "easy">>,
   <<Broken, Rival, "easy">>,
   <<Scrapper, Wreck, "easy">>}

(***************************************************************************)
(* BattleEngine: pure parts                                                *)
(***************************************************************************)
ActionTypes == {"attack", "special", "defend"}

\* a string that is no action type
BadAction == "dance"

\* draws of this.random(), in thousandths
BattleDraws == {100, 500, 999}

\* CRITICAL_HIT_BASE_CHANCE, in thousandths
CriticalHitBaseChance == 50
\* CRITICAL_HIT_LEVEL_BONUS, in thousandths per level
CriticalHitLevelBonus == 10
\* cap of special attacks per side that the AI reads
SpecialCap == 3
\* EXPERIENCE_BASE_REWARD
ExperienceBaseReward == 50
\* EXPERIENCE_LEVEL_MULTIPLIER
ExperienceLevelMultiplier == 10

Max2(a, b) == IF a >= b THEN a ELSE b
Min2(a, b) == IF a <= b THEN a ELSE b

NoActions == [lastAction |-> "null", consecutiveDefends |-> 0,
              specialAttacksUsed |-> 0, lastDamageDealt |-> 0]

LogEntry(type, actor, actionType, damage, critical, reward) ==
  [type |-> type, actor |-> actor, actionType |-> actionType, damage |-> damage,
   critical |-> critical, experienceReward |-> reward]

\* a variant that puts the new entry in front of the log
addBattleLogEntryInFront(log, entry) == <<entry>> \o log

\* this.currentBattle.battleLog.push(entry)
addBattleLogEntry(log, entry) == Append(log, entry)

\* this.currentBattle = null
NullBattle ==
  [id |-> 0, playerCreature |-> Sturdy, opponentCreature |-> Rival,
   difficulty |-> NoDifficulty, currentTurn |-> "player", turnCount |-> 0,
   battleLog |-> <<>>, status |-> "null", winner |-> "null", experienceReward |-> -1,
   playerActions |-> NoActions, opponentActions |-> NoActions,
   aiInfo |-> [personality |-> "null", difficulty |-> NoDifficulty, traits |-> "null"]]

\* a variant of determineTurnOrder that always draws
determineTurnOrderDrawOnly(pc, oc, r) ==
  IF (r - 500) * (pc.speed + oc.speed) + 1000 * (pc.speed - oc.speed) > 0
  THEN "player" ELSE "opponent"

determineTurnOrder(pc, oc, r) ==
  IF 10 * pc.speed >= 12 * oc.speed THEN "player"
  ELSE IF 10 * oc.speed >= 12 * pc.speed THEN "opponent"
  ELSE IF (r - 500) * (pc.speed + oc.speed) + 1000 * (pc.speed - oc.speed) > 0
       THEN "player" ELSE "opponent"

\* a variant of calculateDamage without the last Math.max(1, damage)
calculateDamageUnfloored(attacker, defender, attackType, defenderDefends, r) ==
  LET base10 == IF attackType = "special" THEN attacker.attack * 13 ELSE attacker.attack * 10
      def10 == IF defenderDefends THEN defender.defense * 15 ELSE defender.defense * 10
      dmg10 == Max2(10, base10 - def10)
  IN (dmg10 * (8000 + 4 * r)) \div 100000

\* calculateDamage; defenderDefends: the defender's lastAction is 'defend'
calculateDamage(attacker, defender, attackType, defenderDefends, r) ==
  LET base10 == IF attackType = "special" THEN attacker.attack * 13 ELSE attacker.attack * 10
      def10 == IF defenderDefends THEN defender.defense * 15 ELSE defender.defense * 10
      dmg10 == Max2(10, base10 - def10)
      damage == (dmg10 * (8000 + 4 * r)) \div 100000
  IN Max2(1, damage)

\* checkCriticalHit; halved: the modifier 0.5 of a special attack
checkCriticalHit(attacker, halved, r) ==
  LET baseChance == IF attacker.isOpponent /\ attacker.bonusCrit >= 0
                    THEN attacker.bonusCrit ELSE CriticalHitBaseChance
      total == baseChance + attacker.level * CriticalHitLevelBonus
  IN IF halved THEN 2 * r < total ELSE r < total

updateActionTracking(actions, actionType) ==
  [actions EXCEPT
     !.lastAction = actionType,
     !.consecutiveDefends = IF actionType = "defend" THEN @ + 1 ELSE 0,
     !.specialAttacksUsed = IF actionType = "special" THEN @ + 1 ELSE @]

\* experienceMultiplier of a difficulty tier, in tenths
experienceMultiplier10(d) ==
  IF d = "medium" THEN 12 ELSE IF d = "hard" THEN 15 ELSE 10

\* getDifficultyConfig(difficulty): the tier whose configuration is used
getDifficultyConfig(m, difficulty) ==
  LET target == IF difficulty = NoDifficulty THEN m.currentDifficulty ELSE difficulty
  IN IF target \in Difficulties THEN target ELSE "easy"

\* a variant without the bonus for a higher-level opponent
calculateExperienceRewardNoBonus(b, m, winner) ==
  IF winner # "player" THEN 0
  ELSE LET e1 == ExperienceBaseReward + b.opponentCreature.level * ExperienceLevelMultiplier
       IN (e1 * experienceMultiplier10(getDifficultyConfig(m, b.difficulty))) \div 10

calculateExperienceReward(b, m, winner) ==
  IF winner # "player" THEN 0
  ELSE LET ol == b.opponentCreature.level
           pl == b.playerCreature.level
           e1 == ExperienceBaseReward + ol * ExperienceLevelMultiplier
           e2 == IF ol > pl THEN e1 + (ol - pl) * 20 ELSE e1
       IN (e2 * experienceMultiplier10(getDifficultyConfig(m, b.difficulty))) \div 10

\* a variant of the damage step without the clamp at 0
applyDamageUnclamped(hp, damage) == hp - damage

\* defender.stats.hp = Math.max(0, defender.stats.hp - result.damage)
applyDamage(hp, damage) == Max2(0, hp - damage)

\* a variant of the heal without the clamp at maxHp
applyHealUnclamped(hp, maxHp, healAmount) == hp + healAmount

\* attacker.stats.hp = Math.min(attacker.stats.maxHp, attacker.stats.hp + healAmount)
applyHeal(hp, maxHp, healAmount) == Min2(maxHp, hp + healAmount)

\* executeAction for a known action type, with updateActionTracking: the battle
\* after the actor's action, before checkBattleEnd
executeAction(b, actor, actionType, rDmg, rCrit) ==
  LET attacker == IF actor = "player" THEN b.playerCreature ELSE b.opponentCreature
      defender == IF actor = "player" THEN b.opponentCreature ELSE b.playerCreature
      defenderActions == IF b.currentTurn = "player" THEN b.opponentActions ELSE b.playerActions
      raw == calculateDamage(attacker, defender,
                             IF actionType = "special" THEN "special" ELSE "normal",
                             defenderActions.lastAction = "defend", rDmg)
      critical == checkCriticalHit(attacker, actionType = "special", rCrit)
      damage == IF critical THEN (raw * 3) \div 2 ELSE raw
      healAmount == attacker.maxHp \div 10
      newAttacker == IF actionType = "defend"
                     THEN [attacker EXCEPT !.hp = applyHeal(attacker.hp, attacker.maxHp, healAmount)]
                     ELSE attacker
      newDefender == IF actionType = "defend" THEN defender
                     ELSE [defender EXCEPT !.hp = applyDamage(defender.hp, damage)]
      dealt == IF actionType = "defend" THEN 0 ELSE damage
      crit == IF actionType = "defend" THEN FALSE ELSE critical
      b1 == IF actor = "player"
            THEN [b EXCEPT !.playerCreature = newAttacker, !.opponentCreature = newDefender]
            ELSE [b EXCEPT !.opponentCreature = newAttacker, !.playerCreature = newDefender]
      b2 == IF actionType = "defend" THEN b1
            ELSE IF actor = "player"
                 THEN [b1 EXCEPT !.playerActions.lastDamageDealt = damage]
                 ELSE [b1 EXCEPT !.opponentActions.lastDamageDealt = damage]
      b3 == [b2 EXCEPT !.battleLog = addBattleLogEntry(@, LogEntry("action", actor, actionType, dealt, crit, -1))]
  IN IF actor = "player"
     THEN [b3 EXCEPT !.playerActions = updateActionTracking(@, actionType)]
     ELSE [b3 EXCEPT !.opponentActions = updateActionTracking(@, actionType)]

\* a variant that names the creature at 0 hp the winner
endStatusSwapped(winner) == IF winner = "player" THEN "lost" ELSE "won"

\* endBattle: the status a winner gives the battle
endStatus(winner) == IF winner = "player" THEN "won" ELSE "lost"

\* a variant of checkBattleEnd that looks at the player's hp only
battleWinnerPlayerOnly(b) == IF b.playerCreature.hp <= 0 THEN "opponent" ELSE "null"

\* checkBattleEnd on an active battle: the winner, "null" when nobody is at 0 hp
battleWinner(b) ==
  IF b.playerCreature.hp <= 0 THEN "opponent"
  ELSE IF b.opponentCreature.hp <= 0 THEN "player"
  ELSE "null"

\* endBattle up to the call of recordBattleResult
endBattle(b, m, winner) ==
  LET reward == calculateExperienceReward(b, m, winner)
  IN [b EXCEPT !.status = endStatus(winner),
               !.winner = winner,
               !.experienceReward = reward,
               !.battleLog = addBattleLogEntry(@, LogEntry("battle_end", winner, "null", 0, FALSE, reward))]

(***************************************************************************)
(* BarcodeProcessor, GameUtils and CreatureManager                         *)
(*                                                                         *)
(* A barcode is the sequence of its characters: a digit is its value, any  *)
(* other character is -1.  Experience is a non-negative integer or the     *)
(* float Infinity.  calculateExperienceToNext is exact up to level 16;     *)
(* beyond it the model keeps Huge, which stands for a finite amount larger *)
(* than every finite experience the model holds.  The amounts of the model *)
(* are integers below 2^53, on which the float arithmetic is exact.        *)
(***************************************************************************)
\* the float Infinity
Infinity == 2000000000

\* an experienceToNext of a level above 16
Huge == Infinity \div 2

\* BASE_EXPERIENCE_TO_LEVEL
BaseExperienceToLevel == 100
\* STAT_GROWTH_PER_LEVEL
StatGrowthPerLevel == 5
\* the number checkLevelUp compares levelsGained with
LevelUpCheck == 50
\* the modulus of the generator of createSeededRandom
LcgModulus == 2147483647

\* a variant of the subtraction in the level-up loop that consumes nothing
consumeNothing(experience, threshold) == experience

\* creature.experience -= creature.experienceToNext
consumeExperience(experience, threshold) ==
  IF experience = Infinity THEN Infinity ELSE experience - threshold

\* BarcodeProcessor.generateSeed
generateSeed(barcode) ==
  LET RECURSIVE sum(_)
      sum(i) == IF i = 0 THEN 0 ELSE sum(i - 1) + barcode[i] * i * 31
  IN sum(Len(barcode))

\* BarcodeProcessor.createSeededRandom: the value of current in the closure it
\* returns.  The remainder of JavaScript has the sign of the seed.
createSeededRandom(seed) ==
  LET current == IF seed >= 0 THEN seed % LcgModulus ELSE -((-seed) % LcgModulus)
  IN IF current <= 0 THEN current + (LcgModulus - 1) ELSE current

\* a call of the closure: current = (current * 16807) % 2147483647 for a
\* current in 0..2147483646, computed without the 45-bit product:
\* 2147483647 = 16807 * 127773 + 2836
nextCurrent(current) ==
  LET t == 16807 * (current % 127773) - 2836 * (current \div 127773)
  IN IF t >= 0 THEN t ELSE t + LcgModulus

\* Math.floor(random() * k) for the value (current - 1) / 2147483646 that the
\* closure returns with current in 1..2147483646: the number of j in 1..k-1
\* with (current - 1) * k >= j * 2147483646.  The value differs from every
\* j/k by more than the float's precision unless it equals it, so the float
\* floor is the exact one.
floorRandom(current, k) ==
  LET q == (LcgModulus - 1) \div k
      r == (LcgModulus - 1) % k
  IN Cardinality({j \in 1..(k - 1) : current - 1 >= j * q + ((j * r + k - 1) \div k)})

\* a variant of calculateStats that leaves the stats unclamped
calculateStatsUnclamped(barcode) ==
  LET digit(p) == IF p < Len(barcode) THEN barcode[p + 1] ELSE 0
      getStatFromDigits(p1, p2, min, max) ==
        min + ((digit(p1) + digit(p2)) * (max - min)) \div 18
      c1 == nextCurrent(createSeededRandom(generateSeed(barcode)))
      c2 == nextCurrent(c1)
      c3 == nextCurrent(c2)
      c4 == nextCurrent(c3)
      hp == getStatFromDigits(0, 1, 80, 120) + floorRandom(c1, 20) - 10
  IN [hp |-> hp,
      maxHp |-> hp,
      attack |-> getStatFromDigits(2, 3, 30, 70) + floorRandom(c2, 10) - 5,
      defense |-> getStatFromDigits(4, 5, 25, 65) + floorRandom(c3, 10) - 5,
      speed |-> getStatFromDigits(6, 7, 20, 60) + floorRandom(c4, 10) - 5]

\* BarcodeProcessor.calculateStats, with getStatFromDigits and GameUtils.clamp.
\* Math.floor(base + (random() * k - k/2)) is base + Math.floor(random() * k) - k/2.
calculateStats(barcode) ==
  LET digit(p) == IF p < Len(barcode) THEN barcode[p + 1] ELSE 0
      getStatFromDigits(p1, p2, min, max) ==
        min + ((digit(p1) + digit(p2)) * (max - min)) \div 18
      clamp(value, min, max) == Min2(Max2(value, min), max)
      c1 == nextCurrent(createSeededRandom(generateSeed(barcode)))
      c2 == nextCurrent(c1)
      c3 == nextCurrent(c2)
      c4 == nextCurrent(c3)
      hp == clamp(getStatFromDigits(0, 1, 80, 120) + floorRandom(c1, 20) - 10, 80, 120)
  IN [hp |-> hp,
      maxHp |-> hp,
      attack |-> clamp(getStatFromDigits(2, 3, 30, 70) + floorRandom(c2, 10) - 5, 30, 70),
      defense |-> clamp(getStatFromDigits(4, 5, 25, 65) + floorRandom(c3, 10) - 5, 25, 65),
      speed |-> clamp(getStatFromDigits(6, 7, 20, 60) + floorRandom(c4, 10) - 5, 20, 60)]

\* a variant of calculateExperienceToNext with the same threshold at every level
calculateExperienceToNextFlat(level) == BaseExperienceToLevel

\* GameUtils.calculateExperienceToNext: floor(100 * 1.5^(level - 1))
calculateExperienceToNext(level) ==
  LET RECURSIVE pow(_, _)
      pow(b, e) == IF e = 0 THEN 1 ELSE b * pow(b, e - 1)
  IN IF level <= 16
     THEN (BaseExperienceToLevel * pow(3, level - 1)) \div pow(2, level - 1)
     ELSE Huge

\* a variant of calculateStatAtLevel that counts the first level as growth
calculateStatAtLevelFromZero(baseStat, level) == baseStat + level * StatGrowthPerLevel

\* GameUtils.calculateStatAtLevel
calculateStatAtLevel(baseStat, level) == baseStat + (level - 1) * StatGrowthPerLevel

\* a variant of floorOfProduct that restores full hit points
floorOfProductFull(newMaxHp, hp, maxHp) == newMaxHp

\* Math.floor(newMaxHp * hpRatio) with hpRatio = hp / maxHp in doubles, for
\* 0 <= hp <= maxHp <= 1000 and newMaxHp - maxHp in {5, 10}: the exact
\* quotient, but for the triples <<newMaxHp, hp, maxHp>> listed, where
\* hp / maxHp = 0.7 and the double product falls just below the integer
\* (90 * (56 / 80) = 62.99999999999999).
floorOfProduct(newMaxHp, hp, maxHp) ==
  LET roundedBelow ==
        {<<90, 56, 80>>, <<170, 112, 160>>, <<180, 119, 170>>, <<330, 224, 320>>,
         <<340, 231, 330>>, <<350, 238, 340>>, <<360, 245, 350>>, <<650, 448, 640>>,
         <<660, 455, 650>>, <<670, 462, 660>>, <<680, 469, 670>>, <<690, 476, 680>>,
         <<700, 483, 690>>, <<710, 490, 700>>, <<720, 497, 710>>, <<730, 504, 720>>}
  IN IF <<newMaxHp, hp, maxHp>> \in roundedBelow
     THEN (newMaxHp * hp) \div maxHp - 1
     ELSE (newMaxHp * hp) \div maxHp

\* CreatureManager.updateStatsForLevel on a creature with maxHp > 0
updateStatsForLevel(c) ==
  LET base == calculateStats(c.barcode)
      newMaxHp == calculateStatAtLevel(base.maxHp, c.level)
  IN [c EXCEPT !.maxHp = newMaxHp,
               !.attack = calculateStatAtLevel(base.attack, c.level),
               !.defense = calculateStatAtLevel(base.defense, c.level),
               !.speed = calculateStatAtLevel(base.speed, c.level),
               !.hp = Max2(1, floorOfProduct(newMaxHp, c.hp, c.maxHp))]

\* CreatureManager.checkLevelUp: the creature after the loop and levelsGained
RECURSIVE checkLevelUp(_, _)
checkLevelUp(c, levelsGained) ==
  IF c.experience < c.experienceToNext
  THEN [creature |-> c, levelsGained |-> levelsGained]
  ELSE LET c1 == [c EXCEPT !.experience = consumeExperience(@, c.experienceToNext),
                           !.level = @ + 1]
           c2 == updateStatsForLevel(c1)
           c3 == [c2 EXCEPT !.experienceToNext = calculateExperienceToNext(c2.level)]
       IN IF levelsGained + 1 > LevelUpCheck
          THEN [creature |-> c3, levelsGained |-> levelsGained + 1]
          ELSE checkLevelUp(c3, levelsGained + 1)

\* this.creatures.set(creature.id, creature)
setCreature(cs, creature) == {c \in cs : c.id # creature.id} \cup {creature}

\* a creature of the collection: the fields the CreatureManager reads or
\* writes, the stats flattened; attack, defense and speed as generated
StoredCreature(id, barcode, level, experience, experienceToNext, hp, maxHp) ==
  LET base == calculateStats(barcode)
  IN [id |-> id, barcode |-> barcode, level |-> level, experience |-> experience,
      experienceToNext |-> experienceToNext, hp |-> hp, maxHp |-> maxHp,
      attack |-> calculateStatAtLevel(base.attack, level),
      defense |-> calculateStatAtLevel(base.defense, level),
      speed |-> calculateStatAtLevel(base.speed, level)]

\* DataValidation.isValidCreature, with isValidBarcode, on creature data
\* carrying all the fields
isValidStoredCreature(c) ==
  /\ Len(c.barcode) >= 8
  /\ \A i \in 1..Len(c.barcode) : c.barcode[i] \in 0..9
  /\ c.level >= 1
  /\ c.experience >= 0
  /\ isValidCreatureStats(c)

\* a variant of validateBarcode without the test of the maximum length
validateBarcodeNoMaximum(barcode) ==
  Len(barcode) >= 8 /\ \A i \in 1..Len(barcode) : barcode[i] \in 0..9

\* BarcodeProcessor.validateBarcode on a string
validateBarcode(barcode) ==
  /\ Len(barcode) >= 8
  /\ Len(barcode) <= 20
  /\ \A i \in 1..Len(barcode) : barcode[i] \in 0..9

\* BarcodeProcessor.syllables, each as its characters
Syllables ==
  <<<<"k", "a">>, <<"r", "i">>, <<"m", "o">>, <<"n", "a">>, <<"z", "u">>,
    <<"t", "e">>, <<"l", "o">>, <<"x", "i">>, <<"b", "a">>, <<"d", "o">>,
    <<"f", "e">>, <<"g", "u">>, <<"h", "i">>, <<"j", "a">>, <<"k", "o">>,
    <<"l", "u">>, <<"m", "e">>, <<"n", "o">>, <<"p", "o">>, <<"q", "u">>,
    <<"r", "a">>, <<"s", "i">>, <<"t", "u">>, <<"v", "o">>, <<"w", "a">>,
    <<"x", "e">>, <<"y", "a">>, <<"z", "i">>, <<"b", "o">>, <<"c", "u">>,
    <<"d", "a">>, <<"e", "l">>, <<"f", "i">>, <<"g", "o">>, <<"h", "u">>,
    <<"i", "v">>, <<"j", "o">>, <<"k", "e">>, <<"l", "i">>, <<"m", "a">>,
    <<"a", "r">>, <<"e", "n">>, <<"o", "r">>, <<"u", "n">>, <<"a", "l">>,
    <<"e", "r">>, <<"i", "n">>, <<"o", "n">>, <<"a", "t">>, <<"e", "d">>,
    <<"i", "s">>, <<"i", "t">>, <<"o", "u">>, <<"a", "n">>, <<"h", "e">>,
    <<"w", "a">>, <<"f", "o">>, <<"n", "d">>, <<"n", "g">>, <<"h", "a">>,
    <<"t", "h">>, <<"r", "e">>, <<"v", "e">>, <<"s", "t">>, <<"g", "h">>,
    <<"n", "d">>, <<"l", "e">>, <<"s", "e">>, <<"n", "t">>, <<"t", "i">>,
    <<"r", "o">>, <<"u", "r">>, <<"l", "i">>, <<"c", "h">>, <<"l", "a">>,
    <<"n", "e">>, <<"m", "i">>, <<"e", "l">>, <<"c", "o">>, <<"d", "e">>>>

\* BarcodeProcessor.generateCreatureName with applyNameStyling: the name as
\* the sequence of its characters.  random() < 0.3 is Math.floor(random() * 10) < 3
\* and random() < 0.2 is Math.floor(random() * 5) < 1.
generateCreatureName(barcode) ==
  LET c1 == nextCurrent(createSeededRandom(generateSeed(barcode)))
      patternIndex == floorRandom(c1, 3)
      c2 == nextCurrent(c1)
      \* namePatterns[patternIndex]: minLength 2, 3, 4 and maxLength one more
      nameLength == (2 + patternIndex) + floorRandom(c2, 2)
      \* the do-while: the syllable kept and current after it
      RECURSIVE draw(_, _, _)
      draw(current, usedSyllables, attempts) ==
        LET c == nextCurrent(current)
            syllable == Syllables[floorRandom(c, Len(Syllables)) + 1]
        IN IF nameLength <= 3 /\ syllable \in usedSyllables /\ attempts + 1 < 10
           THEN draw(c, usedSyllables, attempts + 1)
           ELSE [current |-> c, syllable |-> syllable]
      RECURSIVE build(_, _, _, _)
      build(i, current, usedSyllables, name) ==
        IF i = nameLength THEN [current |-> current, name |-> name]
        ELSE LET d == draw(current, usedSyllables, 0)
             IN build(i + 1, d.current, usedSyllables \cup {d.syllable}, name \o d.syllable)
      base == build(0, c2, {}, <<>>)
      \* name.slice(0, pos) + char + name.slice(pos)
      insert(name, pos, char) ==
        SubSeq(name, 1, pos) \o <<char>> \o SubSeq(name, pos + 1, Len(name))
      cA == nextCurrent(base.current)
      cB == nextCurrent(cA)
      consonants == {"b", "c", "d", "f", "g", "h", "j", "k", "l", "m", "n", "p", "q", "r",
                     "s", "t", "v", "w", "x", "y", "z"}
      styled ==
        IF patternIndex = 0 /\ floorRandom(cA, 10) < 3
        THEN LET pos == floorRandom(cB, Len(base.name) - 1) + 1
                 char == base.name[pos + 1]
             IN IF char \in consonants THEN insert(base.name, pos, char) ELSE base.name
        ELSE IF patternIndex = 2 /\ floorRandom(cA, 5) < 1 /\ Len(base.name) > 4
        THEN insert(base.name, floorRandom(cB, Len(base.name) - 2) + 2, "'")
        ELSE base.name
      lower == <<"a", "b", "c", "d", "e", "f", "g", "h", "i", "j", "k", "l", "m",
                 "n", "o", "p", "q", "r", "s", "t", "u", "v", "w", "x", "y", "z">>
      upper == <<"A", "B", "C", "D", "E", "F", "G", "H", "I", "J", "K", "L", "M",
                 "N", "O", "P", "Q", "R", "S", "T", "U", "V", "W", "X", "Y", "Z">>
      toUpperCase(char) == upper[CHOOSE i \in 1..26 : lower[i] = char]
  IN <<toUpperCase(styled[1])>> \o Tail(styled)

\* a variant of generateCreature whose name generator is seeded with the id
\* as well
generateCreatureSeededById(barcode, id) ==
  IF ~validateBarcode(barcode) THEN [created |-> FALSE]
  ELSE LET stats == calculateStats(barcode)
       IN [created |-> TRUE,
           creature |->
             [id |-> id,
              name |-> generateCreatureName(Append(barcode, IF id = "a" THEN 1 ELSE 2)),
              barcode |-> barcode, level |-> 1, experience |-> 0,
              experienceToNext |-> calculateExperienceToNext(1),
              hp |-> stats.hp, maxHp |-> stats.maxHp, attack |-> stats.attack,
              defense |-> stats.defense, speed |-> stats.speed]]

\* BarcodeProcessor.generateCreature: created is false for null; id is what
\* GameUtils.generateId returns
generateCreature(barcode, id) ==
  IF ~validateBarcode(barcode) THEN [created |-> FALSE]
  ELSE LET stats == calculateStats(barcode)
           creature == [id |-> id, name |-> generateCreatureName(barcode),
                        barcode |-> barcode, level |-> 1, experience |-> 0,
                        experienceToNext |-> calculateExperienceToNext(1),
                        hp |-> stats.hp, maxHp |-> stats.maxHp, attack |-> stats.attack,
                        defense |-> stats.defense, speed |-> stats.speed]
       IN IF isValidStoredCreature(creature)
          THEN [created |-> TRUE, creature |-> creature]
          ELSE [created |-> FALSE]

\* a variant of the amount check of awardExperience that rejects nothing
invalidExperienceNever(experienceGained) == FALSE

\* experienceGained < 0
invalidExperience(experienceGained) == experienceGained < 0

\* CreatureManager.awardExperience: the collection after the call and the
\* value returned
awardExperience(cs, creatureId, experienceGained) ==
  IF ~\E c \in cs : c.id = creatureId
  THEN [creatures |-> cs,
        result |-> [name |-> "awardExperience", success |-> FALSE,
                    error |-> "Creature not found"]]
  ELSE IF invalidExperience(experienceGained)
  THEN [creatures |-> cs,
        result |-> [name |-> "awardExperience", success |-> FALSE,
                    error |-> "Invalid experience amount"]]
  ELSE LET c == CHOOSE x \in cs : x.id = creatureId
           added == IF c.experience = Infinity \/ experienceGained = Infinity
                    THEN Infinity
                    ELSE c.experience + experienceGained
           up == checkLevelUp([c EXCEPT !.experience = added], 0)
       IN [creatures |-> setCreature(cs, up.creature),
           result |-> [name |-> "awardExperience", success |-> TRUE, error |-> "",
                       oldLevel |-> c.level, newLevel |-> up.creature.level,
                       levelsGained |-> up.creature.level - c.level]]

\* CreatureManager.levelUpCreature(creatureId, levels)
levelUpCreature(cs, creatureId, levels) ==
  IF ~\E c \in cs : c.id = creatureId
  THEN [creatures |-> cs,
        result |-> [name |-> "levelUpCreature", success |-> FALSE,
                    error |-> "Creature not found"]]
  ELSE IF levels < 1
  THEN [creatures |-> cs,
        result |-> [name |-> "levelUpCreature", success |-> FALSE,
                    error |-> "Invalid level amount"]]
  ELSE LET c == CHOOSE x \in cs : x.id = creatureId
           c1 == updateStatsForLevel([c EXCEPT !.level = @ + levels])
           c2 == [c1 EXCEPT !.experienceToNext = calculateExperienceToNext(c1.level)]
       IN [creatures |-> setCreature(cs, c2),
           result |-> [name |-> "levelUpCreature", success |-> TRUE, error |-> "",
                       oldLevel |-> c.level, newLevel |-> c2.level,
                       levelsGained |-> levels]]

\* CreatureManager.addCreature
addCreature(cs, creature) ==
  IF ~isValidStoredCreature(creature) \/ \E c \in cs : c.barcode = creature.barcode
  THEN [creatures |-> cs, result |-> [name |-> "addCreature", success |-> FALSE]]
  ELSE [creatures |-> setCreature(cs, creature),
        result |-> [name |-> "addCreature", success |-> TRUE]]

\* CreatureManager.removeCreature
removeCreature(cs, creatureId) ==
  [creatures |-> {c \in cs : c.id # creatureId},
   result |-> [name |-> "removeCreature", success |-> \E c \in cs : c.id = creatureId]]

\* CreatureManager.importCollection: jsonData.parses tells whether the text
\* is JSON with a creatures array, jsonData.creatures is that array
importCollection(cs, jsonData, merge) ==
  LET RECURSIVE importFrom(_, _)
      importFrom(acc, i) ==
        IF i > Len(jsonData.creatures) THEN acc
        ELSE LET creatureData == jsonData.creatures[i]
                 take == /\ isValidStoredCreature(creatureData)
                         /\ ~(merge /\ \E c \in acc.creatures : c.id = creatureData.id)
             IN importFrom(IF take
                           THEN [creatures |-> setCreature(acc.creatures, creatureData),
                                 imported |-> acc.imported + 1, skipped |-> acc.skipped]
                           ELSE [acc EXCEPT !.skipped = @ + 1],
                           i + 1)
  IN IF ~jsonData.parses
     THEN [creatures |-> cs, result |-> [name |-> "importCollection", success |-> FALSE]]
     ELSE LET done == importFrom([creatures |-> IF merge THEN cs ELSE {},
                                  imported |-> 0, skipped |-> 0], 1)
          IN [creatures |-> done.creatures,
              result |-> [name |-> "importCollection", success |-> TRUE,
                          imported |-> done.imported, skipped |-> done.skipped]]

(***************************************************************************)
(* AIOpponent                                                              *)
(***************************************************************************)
\* draws of Math.random() in the decision code, in thousandths
AIDraws == {0, 450, 650, 900}

\* draws of Math.random() when the personality of a battle is chosen, in
\* SpecDeep and in Spec
SetupDraws == {250, 450}
SessionSetupDraws == {450}

PersonalityNames == <<"Aggressive", "Defensive", "Tactical", "Berserker", "Cautious">>

\* traits of generatePersonality's table, in tenths
Traits(nm) ==
  CASE nm = "Aggressive" -> [attackPreference |-> 7, specialAttackUsage |-> 4, riskTolerance |-> 8, adaptability |-> 3]
    [] nm = "Defensive" -> [attackPreference |-> 3, specialAttackUsage |-> 2, riskTolerance |-> 2, adaptability |-> 6]
    [] nm = "Tactical" -> [attackPreference |-> 5, specialAttackUsage |-> 6, riskTolerance |-> 4, adaptability |-> 8]
    [] nm = "Berserker" -> [attackPreference |-> 9, specialAttackUsage |-> 7, riskTolerance |-> 9, adaptability |-> 1]
    [] OTHER -> [attackPreference |-> 4, specialAttackUsage |-> 3, riskTolerance |-> 3, adaptability |-> 7]

\* generatePersonality: personalities[Math.floor(Math.random() * 5)]
generatePersonality(r) == PersonalityNames[((r * 5) \div 1000) + 1]

\* aiPersonalityWeights of a tier in hundredths, in key order; the literal of
\* hard names Berserker twice (the later value stands) and never Cautious
aiPersonalityWeights(tier) ==
  CASE tier = "easy" -> <<<<"Aggressive", 10>>, <<"Defensive", 40>>, <<"Tactical", 20>>, <<"Berserker", 5>>, <<"Cautious", 25>>>>
    [] tier = "medium" -> <<<<"Aggressive", 25>>, <<"Defensive", 25>>, <<"Tactical", 30>>, <<"Berserker", 10>>, <<"Cautious", 10>>>>
    [] OTHER -> <<<<"Aggressive", 30>>, <<"Defensive", 15>>, <<"Tactical", 40>>, <<"Berserker", 5>>>>

RECURSIVE SumWeights(_, _)
SumWeights(w, i) == IF i > Len(w) THEN 0 ELSE w[i][2] + SumWeights(w, i + 1)

RECURSIVE PickWeighted(_, _, _)
PickWeighted(w, i, rest) ==
  IF i > Len(w) THEN w[1][1]
  ELSE IF rest - 1000 * w[i][2] <= 0 THEN w[i][1]
  ELSE PickWeighted(w, i + 1, rest - 1000 * w[i][2])

selectAIPersonality(m, difficulty, r) ==
  LET w == aiPersonalityWeights(getDifficultyConfig(m, difficulty))
  IN PickWeighted(w, 1, r * SumWeights(w, 1))

NoAI ==
  [present |-> FALSE, difficulty |-> NoDifficulty, personality |-> "null", traits |-> "null",
   playerActions |-> <<>>, ownActions |-> <<>>, damageDealt |-> 0, damageTaken |-> 0,
   turnsElapsed |-> 0]

\* new AIOpponent(difficulty) with the personality initiateBattle gives it
NewAI(difficulty, personality, traits) ==
  [NoAI EXCEPT !.present = TRUE, !.difficulty = difficulty,
               !.personality = personality, !.traits = traits]

\* a variant of updateMemory that never drops a player action
updateMemoryUnbounded(a, b) ==
  LET last == b.playerActions.lastAction
  IN [a EXCEPT
        !.turnsElapsed = @ + 1,
        !.playerActions = IF last = "null" THEN @ ELSE Append(@, last),
        !.damageTaken = @ + b.playerActions.lastDamageDealt,
        !.damageDealt = @ + b.opponentActions.lastDamageDealt]

updateMemory(a, b) ==
  LET last == b.playerActions.lastAction
      pushed == IF last = "null" THEN a.playerActions ELSE Append(a.playerActions, last)
  IN [a EXCEPT
        !.turnsElapsed = @ + 1,
        !.playerActions = IF Len(pushed) > 5 THEN Tail(pushed) ELSE pushed,
        !.damageTaken = @ + b.playerActions.lastDamageDealt,
        !.damageDealt = @ + b.opponentActions.lastDamageDealt]

getHealthStatus(hp, maxHp) ==
  IF 4 * hp > 3 * maxHp THEN "healthy"
  ELSE IF 2 * hp > maxHp THEN "wounded"
  ELSE IF 4 * hp > maxHp THEN "critical"
  ELSE "desperate"

CountOf(actions, x) == Cardinality({i \in 1..Len(actions) : actions[i] = x})

\* Object.keys(actionCounts): the actions in the order they first appear
RECURSIVE KeysInOrder(_, _, _)
KeysInOrder(actions, i, acc) ==
  IF i > Len(actions) THEN acc
  ELSE KeysInOrder(actions, i + 1,
                   IF Includes(acc, actions[i]) THEN acc ELSE Append(acc, actions[i]))

\* keys.reduce((a, b) => actionCounts[a] > actionCounts[b] ? a : b)
RECURSIVE ReduceMostCommon(_, _, _, _)
ReduceMostCommon(actions, keys, i, acc) ==
  IF i > Len(keys) THEN acc
  ELSE ReduceMostCommon(actions, keys, i + 1,
                        IF CountOf(actions, acc) > CountOf(actions, keys[i]) THEN acc ELSE keys[i])

isAlternatingPattern(actions) ==
  /\ Len(actions) >= 4
  /\ \A i \in 3..Len(actions) : actions[i] = actions[i - 2]

isEscalatingPattern(actions) ==
  /\ Len(actions) >= 3
  /\ SubSeq(actions, Len(actions) - 2, Len(actions)) = <<"attack", "special", "defend">>

\* analyzePlayerPattern; confident: confidence > 0.6
analyzePlayerPattern(actions) ==
  IF Len(actions) < 2
  THEN [type |-> "unknown", confident |-> FALSE, mostCommon |-> "null"]
  ELSE LET keys == KeysInOrder(actions, 1, <<>>)
           mostCommon == ReduceMostCommon(actions, keys, 2, keys[1])
           confident == 10 * CountOf(actions, mostCommon) > 6 * Len(actions)
       IN [type |-> IF confident THEN mostCommon
                    ELSE IF isAlternatingPattern(actions) THEN "alternating"
                    ELSE IF isEscalatingPattern(actions) THEN "escalating"
                    ELSE "random",
           confident |-> confident,
           mostCommon |-> mostCommon]

\* calculateUrgency > x/10, on hp fractions aiHp/aiMax and pHp/pMax
urgencyAbove(aiHp, aiMax, pHp, pMax, x) ==
  LET den == 10 * aiMax * pMax
      hpUrgency == Max2(0, (aiMax - 2 * aiHp) * 10 * pMax)
      threatUrgency == Max2(0, (10 * pHp - 3 * pMax) * aiMax)
      urgency == Min2(den, hpUrgency + threatUrgency)
  IN 10 * urgency > x * den

\* analyzeBattleSituation, on the memory as updateMemory left it; the type of
\* playerPattern is '<mostCommon>_heavy' when the pattern is confident
analyzeBattleSituation(a, b) ==
  LET ai == b.opponentCreature
      pl == b.playerCreature
  IN [aiHealthStatus |-> getHealthStatus(ai.hp, ai.maxHp),
      playerHealthStatus |-> getHealthStatus(pl.hp, pl.maxHp),
      healthDeficit |-> 10 * (ai.hp * pl.maxHp - pl.hp * ai.maxHp) < -3 * ai.maxHp * pl.maxHp,
      attackAdvantage |-> ai.attack - pl.attack,
      defenseAdvantage |-> ai.defense - pl.defense,
      playerPattern |-> analyzePlayerPattern(a.playerActions),
      urgencyHigh |-> urgencyAbove(ai.hp, ai.maxHp, pl.hp, pl.maxHp, 7),
      urgencyMid |-> urgencyAbove(ai.hp, ai.maxHp, pl.hp, pl.maxHp, 5),
      canUseSpecial |-> b.opponentActions.specialAttacksUsed < SpecialCap,
      shouldAvoidDefend |-> b.opponentActions.consecutiveDefends >= 2]

\* strategyScores as determineStrategy has built it before it picks a key; the
\* scores are in hundredths
strategyScores(sit, traits) ==
  LET t == Traits(traits)
      h == sit.aiHealthStatus
      heavy(x) == sit.playerPattern.confident /\ sit.playerPattern.mostCommon = x
      aggressive == (IF h = "desperate" THEN 40 ELSE IF h = "healthy" THEN 20 ELSE 0)
                    + (IF sit.attackAdvantage > 10 THEN 30 ELSE 0)
                    + (IF sit.urgencyHigh THEN 40 ELSE 0)
                    + (IF heavy("defend") THEN 30 ELSE 0)
                    + t.attackPreference * 3
      defensive == (IF h = "desperate" THEN -20 ELSE IF h = "critical" THEN 30 ELSE 0)
                   + (IF sit.defenseAdvantage > 10 THEN 20 ELSE 0)
                   + (IF sit.urgencyHigh THEN -30 ELSE 0)
                   + (IF heavy("attack") THEN 30 ELSE 0)
                   + (10 - t.riskTolerance) * 2
      tactical == (IF h = "critical" THEN 20 ELSE 0) + t.adaptability * 2
  IN [aggressive |-> aggressive, defensive |-> defensive, tactical |-> tactical]

\* Object.keys(strategyScores).reduce((a, b) => strategyScores[a] > strategyScores[b] ? a : b)
determineStrategy(sit, traits) ==
  LET scores == strategyScores(sit, traits)
      first == IF scores.aggressive > scores.defensive THEN "aggressive" ELSE "defensive"
  IN IF scores[first] > scores.tactical THEN first ELSE "tactical"

executeAggressiveStrategy(sit, r1, r2) ==
  IF sit.canUseSpecial /\ r1 < 600 THEN "special"
  ELSE IF r2 < 800 THEN "attack"
  ELSE "defend"

executeDefensiveStrategy(sit, r1, r2, r3) ==
  IF sit.shouldAvoidDefend THEN (IF r1 < 700 THEN "attack" ELSE "special")
  ELSE IF sit.aiHealthStatus = "critical" /\ r1 < 600 THEN "defend"
  ELSE IF r2 < 400 THEN "defend"
  ELSE IF r3 < 700 THEN "attack"
  ELSE "special"

\* a variant of counterPlayerPattern that answers with the player's own action
counterPlayerPatternMirror(pattern) ==
  IF pattern.mostCommon \in {"attack", "special", "defend"} THEN pattern.mostCommon ELSE "attack"

counterPlayerPattern(pattern) ==
  CASE pattern.mostCommon = "attack" -> "defend"
    [] pattern.mostCommon = "special" -> "attack"
    [] pattern.mostCommon = "defend" -> "special"
    [] OTHER -> "attack"

executeTacticalStrategy(sit, r1, r2) ==
  IF sit.playerPattern.confident THEN counterPlayerPattern(sit.playerPattern)
  ELSE IF sit.canUseSpecial /\ sit.urgencyMid /\ r1 < 400 THEN "special"
  ELSE IF r2 < 500 THEN "attack"
  ELSE IF r2 < 750 THEN "defend"
  ELSE "special"

executeStrategy(strategy, sit, r1, r2, r3) ==
  CASE strategy = "aggressive" -> executeAggressiveStrategy(sit, r1, r2)
    [] strategy = "defensive" -> executeDefensiveStrategy(sit, r1, r2, r3)
    [] strategy = "tactical" -> executeTacticalStrategy(sit, r1, r2)
    [] OTHER -> "attack"

getOptimalAction(sit) ==
  IF sit.aiHealthStatus = "desperate" THEN (IF sit.canUseSpecial THEN "special" ELSE "attack")
  ELSE IF sit.playerHealthStatus = "critical" THEN "attack"
  ELSE IF sit.healthDeficit THEN "defend"
  ELSE "attack"

\* mistakeChance of easy is 0.3, optimalPlayChance of hard is 0.7
applyDifficultyModifications(a, decision, sit, r4, r5) ==
  IF a.difficulty = "easy" /\ r4 < 300
  THEN <<"attack", "special", "defend">>[((r5 * 3) \div 1000) + 1]
  ELSE IF a.difficulty = "hard" /\ r4 < 700 THEN getOptimalAction(sit)
  ELSE decision

\* the actions makeDecision can return, over the draws of Math.random();
\* a is the AI after updateMemory
Decisions(a, b) ==
  LET sit == analyzeBattleSituation(a, b)
      strategy == determineStrategy(sit, a.traits)
      chosen == {executeStrategy(strategy, sit, r1, r2, r3) : r1 \in AIDraws, r2 \in AIDraws, r3 \in AIDraws}
  IN UNION {{applyDifficultyModifications(a, d, sit, r4, r5) : r4 \in AIDraws, r5 \in AIDraws} : d \in chosen}

\* logDecision: at most the 10 latest decisions are kept
logDecision(a, decision, b) ==
  LET entry == [action |-> decision,
                aiHealth |-> getHealthStatus(b.opponentCreature.hp, b.opponentCreature.maxHp),
                playerHealth |-> getHealthStatus(b.playerCreature.hp, b.playerCreature.maxHp),
                turn |-> a.turnsElapsed]
      pushed == Append(a.ownActions, entry)
  IN [a EXCEPT !.ownActions = IF Len(pushed) > 10 THEN Tail(pushed) ELSE pushed]

(***************************************************************************)
(* State                                                                   *)
(***************************************************************************)
VARIABLES
  dm,             \* the DifficultyManager instance
  storage,        \* localStorage item barcodeBattler_difficultyProgress
  currentBattle,  \* BattleEngine.currentBattle
  battleHistory,  \* BattleEngine.battleHistory
  aiOpponent,     \* BattleEngine.aiOpponent
  battleCount,    \* battles initiated so far; the next battle's id
  steps,          \* battle actions executed so far
  call,           \* the operation called last
  error,          \* the message of the error it threw, "" when it returned
  creatures,      \* CreatureManager.creatures: the creatures of the Map
  args,           \* the arguments of the last call of a manager or pure function
  result,         \* what that call returned
  calls,          \* CreatureManager calls made so far
  heap,           \* the objects the caller of the BattleEngine holds
  ui              \* the UIController's battle screen and its pending setTimeout callbacks

vars == <<dm, storage, currentBattle, battleHistory, aiOpponent, battleCount, steps, call, error,
          creatures, args, result, calls, heap, ui>>

engineVars == <<currentBattle, battleHistory, aiOpponent, battleCount, steps, heap>>

libraryVars == <<creatures, args, result, calls, ui>>

(***************************************************************************)
(* Object identity.  An object is a record of its identity ref and its     *)
(* content value; the ref of a battle object lists the identities of the   *)
(* battle and of its player and opponent creature.  heap holds the objects *)
(* the caller keeps and the identities of the engine's own battle, so that *)
(* a write to an object shows in every holder of that identity.  The       *)
(* content of a creature or a battle is numbers, strings and booleans,     *)
(* which JSON.stringify and JSON.parse give back as they were.             *)
(***************************************************************************)
\* a variant of deepClone that hands back its argument
deepCloneSameObject(obj, fresh) == obj

\* GameUtils.deepClone: JSON.parse(JSON.stringify(obj)) is a new object
deepClone(obj, fresh) == [obj EXCEPT !.ref = fresh]

NoRefs == <<"null", "null", "null">>

\* a caller that keeps no object
NoObjects ==
  [held |-> FALSE,
   playerCreature |-> [ref |-> "none", value |-> Sturdy],
   opponentCreature |-> [ref |-> "none", value |-> Rival],
   currentBattle |-> NoRefs,
   returned |-> [ref |-> NoRefs, value |-> NullBattle]]

\* the objects after the engine wrote the content b into its battle:
\* defender.stats.hp = ..., attacker.stats.hp = ..., this.currentBattle.x = ...
written(h, b) ==
  IF h.currentBattle = NoRefs THEN h
  ELSE [h EXCEPT
         !.playerCreature.value =
            IF h.playerCreature.ref = h.currentBattle[2] THEN b.playerCreature ELSE @,
         !.opponentCreature.value =
            IF h.opponentCreature.ref = h.currentBattle[3] THEN b.opponentCreature ELSE @,
         !.returned.value = IF h.returned.ref = h.currentBattle THEN b ELSE @]

\* no CreatureManager call and no function application yet
NoCall == [name |-> "none"]

\* the battle screen before any battle: the time in units of 300 ms, whether
\* .battle-action-panel is displayed, whether #battle-result is shown, and the
\* callbacks handed to setTimeout that have not run, and the one that ran last
NoTimers ==
  [now |-> 0, panel |-> FALSE, resultShown |-> FALSE, pending |-> {},
   fired |-> [kind |-> "none", due |-> 0, battle |-> 0, actionType |-> "null"]]

LibraryIdle ==
  /\ creatures = {} /\ args = NoCall /\ result = NoCall /\ calls = 0
  /\ heap = NoObjects /\ ui = NoTimers

\* what earlier page loads can have left in localStorage: nothing, the save of
\* a setDifficulty('easy') on a new manager, the save of a resetProgress
PriorStorage ==
  {NoStorage,
   saveProgress(NewManager),
   saveProgress([NewManager EXCEPT !.battleStats = FreshStats])}

\* main.js: new DifficultyManager(); new BattleEngine(difficultyManager)
Init ==
  /\ storage \in PriorStorage
  /\ dm = loadProgress(NewManager, storage)
  /\ currentBattle = NullBattle
  /\ battleHistory = <<>>
  /\ aiOpponent = NoAI
  /\ battleCount = 0
  /\ steps = 0
  /\ call = "constructor"
  /\ error = ""
  /\ LibraryIdle

InitDM ==
  /\ storage = NoStorage
  /\ dm = NewManager
  /\ currentBattle = NullBattle
  /\ battleHistory = <<>>
  /\ aiOpponent = NoAI
  /\ battleCount = 0
  /\ steps = 0
  /\ call = "constructor"
  /\ error = ""
  /\ LibraryIdle

\* progress data some writer left in localStorage: any JSON text
StoredLists ==
  {<<"array", <<>>>>, <<"array", <<"medium">>>>, <<"array", <<"hard", "easy">>>>,
   <<"string", <<"queasy">>>>, <<"string", <<"medium">>>>,
   <<"other", <<>>>>, <<"undefined", <<>>>>}

StoredStats ==
  {EmptyStats, FreshStats, [FreshStats EXCEPT !.wins["easy"] = 4]}

StoredProgress ==
  {[present |-> TRUE, corrupt |-> c, currentDifficulty |-> cur,
    unlockedKind |-> l[1], unlockedDifficulties |-> l[2], battleStats |-> bs] :
     c \in BOOLEAN, cur \in {"medium", BadDifficulty, NoDifficulty},
     l \in StoredLists, bs \in StoredStats}

\* new DifficultyManager() on stored progress data
InitLoad ==
  /\ storage \in StoredProgress
  /\ dm = loadProgress(NewManager, storage)
  /\ currentBattle = NullBattle
  /\ battleHistory = <<>>
  /\ aiOpponent = NoAI
  /\ battleCount = 0
  /\ steps = 0
  /\ call = "constructor"
  /\ error = ""
  /\ LibraryIdle

Recorded(m) == getTotalWins(m) + TotalLosses(m)

\* new managers and a new engine, nothing stored, nothing called
Idle ==
  /\ storage = NoStorage
  /\ dm = NewManager
  /\ currentBattle = NullBattle
  /\ battleHistory = <<>>
  /\ aiOpponent = NoAI
  /\ battleCount = 0
  /\ steps = 0
  /\ call = "constructor"
  /\ error = ""
  /\ creatures = {}
  /\ result = NoCall
  /\ calls = 0
  /\ heap = NoObjects
  /\ ui = NoTimers

\* a function is applied to the arguments in args; only result changes
Returns(name, value) ==
  /\ args.name = name
  /\ call' = name
  /\ error' = ""
  /\ result' = [name |-> name, value |-> value]
  /\ UNCHANGED <<dm, storage, engineVars, creatures, args, calls, ui>>

\* the arguments of calculateDamage: the two stats it reads, the attack type,
\* whether the defender's lastAction is 'defend', and the draw of this.random()
DamageArgs ==
  [name : {"calculateDamage"}, attack : 0..MaxStat, defense : 0..MaxStat,
   attackType : {"normal", "special"}, defends : BOOLEAN, r : {0, 1, 499, 500, 999}]

InitDamage == args \in DamageArgs /\ Idle

ApplyCalculateDamage ==
  Returns("calculateDamage",
          calculateDamage(args, args, args.attackType, args.defends, args.r))

(***************************************************************************)
(* CreatureManager operations.  saveCreatures hands the collection to the  *)
(* StorageManager and reports nothing back, so it changes no variable.     *)
(***************************************************************************)
\* a call of the CreatureManager with arguments a whose outcome is out
ManagerCall(a, out, maxCalls) ==
  /\ calls < maxCalls
  /\ calls' = calls + 1
  /\ call' = a.name
  /\ error' = ""
  /\ args' = a
  /\ result' = out.result
  /\ creatures' = out.creatures
  /\ UNCHANGED <<dm, storage, engineVars, ui>>

AwardExperience(creatureId, experienceGained) ==
  ManagerCall([name |-> "awardExperience", creatureId |-> creatureId,
               experienceGained |-> experienceGained],
              awardExperience(creatures, creatureId, experienceGained), MaxLevelCalls)

LevelUpCreature(creatureId, levels) ==
  ManagerCall([name |-> "levelUpCreature", creatureId |-> creatureId, levels |-> levels],
              levelUpCreature(creatures, creatureId, levels), MaxLevelCalls)

AddCreature(creature) ==
  ManagerCall([name |-> "addCreature", creature |-> creature],
              addCreature(creatures, creature), MaxCollectionCalls)

RemoveCreature(creatureId) ==
  ManagerCall([name |-> "removeCreature", creatureId |-> creatureId],
              removeCreature(creatures, creatureId), MaxCollectionCalls)

ClearCollection ==
  ManagerCall([name |-> "clearCollection"],
              [creatures |-> {}, result |-> [name |-> "clearCollection", success |-> TRUE]],
              MaxCollectionCalls)

ImportCollection(jsonData, merge) ==
  ManagerCall([name |-> "importCollection", jsonData |-> jsonData, merge |-> merge],
              importCollection(creatures, jsonData, merge), MaxCollectionCalls)

(***************************************************************************)
(* BarcodeProcessor operations                                             *)
(***************************************************************************)
\* a call of a BarcodeProcessor method with arguments a that returns value;
\* the processor keeps no state between calls
ProcessorCall(a, value, maxCalls) ==
  /\ calls < maxCalls
  /\ calls' = calls + 1
  /\ call' = a.name
  /\ error' = ""
  /\ args' = a
  /\ result' = [name |-> a.name, value |-> value]
  /\ UNCHANGED <<dm, storage, engineVars, creatures, ui>>

\* UIController.generateCreatureFromInput with the text barcode in the input
\* field, its timer callback included: the creature generated is offered to
\* the collection
GenerateCreatureFromInput(barcode, id, maxCalls) ==
  LET generated == IF validateBarcode(barcode) THEN generateCreature(barcode, id)
                   ELSE [created |-> FALSE]
  IN /\ calls < maxCalls
     /\ calls' = calls + 1
     /\ call' = "generateCreatureFromInput"
     /\ error' = ""
     /\ args' = [name |-> "generateCreatureFromInput", barcode |-> barcode, id |-> id]
     /\ result' = [name |-> "generateCreatureFromInput", value |-> generated]
     /\ creatures' = IF generated.created
                     THEN addCreature(creatures, generated.creature).creatures
                     ELSE creatures
     /\ UNCHANGED <<dm, storage, engineVars, ui>>

\* a call of the closure createSeededRandom returned: result holds its current
CallRandom ==
  /\ result.name \in {"createSeededRandom", "random"}
  /\ calls < MaxRandomCalls
  /\ calls' = calls + 1
  /\ call' = "random"
  /\ error' = ""
  /\ result' = [name |-> "random", value |-> nextCurrent(result.value)]
  /\ UNCHANGED <<dm, storage, engineVars, creatures, args, ui>>

(***************************************************************************)
(* DifficultyManager operations                                            *)
(***************************************************************************)
\* recordBattleResult called on the manager
RecordUpTo(won, difficulty, maxRecords, maxLosses) ==
  /\ UNCHANGED libraryVars
  /\ Recorded(dm) < maxRecords
  /\ won = "false" =>
       LET d == IF difficulty = NoDifficulty THEN dm.currentDifficulty ELSE difficulty
       IN d \in Difficulties => dm.battleStats.losses[d] < maxLosses
  /\ LET r == recordBattleResult(dm, storage, won, difficulty)
     IN /\ dm' = r.dm
        /\ storage' = r.storage
        /\ error' = IF r.threw THEN "TypeError" ELSE ""
  /\ call' = "recordBattleResult"
  /\ UNCHANGED engineVars

RecordResult(won, difficulty) == RecordUpTo(won, difficulty, MaxRecords, MaxLosses)

\* unlockDifficulty called on the manager; it does not save
UnlockDifficulty(d) ==
  /\ UNCHANGED libraryVars
  /\ call' = "unlockDifficulty"
  /\ error' = IF unlockThrows(dm, d) THEN "TypeError" ELSE ""
  /\ dm' = unlockDifficulty(dm, d)
  /\ UNCHANGED storage
  /\ UNCHANGED engineVars

SetDifficulty(d) ==
  /\ UNCHANGED libraryVars
  /\ call' = "setDifficulty"
  /\ error' = ""
  /\ IF isValidDifficulty(d) /\ isDifficultyUnlocked(dm, d)
     THEN /\ dm' = [dm EXCEPT !.currentDifficulty = d]
          /\ storage' = saveProgress(dm')
     ELSE UNCHANGED <<dm, storage>>
  /\ UNCHANGED engineVars

ResetProgress ==
  /\ UNCHANGED libraryVars
  /\ call' = "resetProgress"
  /\ error' = ""
  /\ dm' = [currentDifficulty |-> "easy",
            unlockedDifficulties |-> <<"easy">>,
            unlockedIsString |-> FALSE,
            battleStats |-> FreshStats]
  /\ storage' = saveProgress(dm')
  /\ UNCHANGED engineVars

\* a page load: new DifficultyManager(), which ends with loadProgress(), and
\* a new BattleEngine on it
Reload ==
  /\ UNCHANGED libraryVars
  /\ call' = "constructor"
  /\ error' = ""
  /\ dm' = loadProgress(NewManager, storage)
  /\ currentBattle' = NullBattle
  /\ battleHistory' = <<>>
  /\ aiOpponent' = NoAI
  /\ heap' = [heap EXCEPT !.currentBattle = NoRefs]
  /\ UNCHANGED <<storage, battleCount, steps>>

(***************************************************************************)
(* BattleEngine operations                                                 *)
(***************************************************************************)
Rejected(message) ==
  /\ error' = message
  /\ UNCHANGED <<dm, storage, engineVars>>

\* BattleEngine.initiateBattle
initiateBattle(pc, oc, difficulty, rTurn, rName, rTraits, maxBattles) ==
  /\ battleCount < maxBattles
  /\ call' = "initiateBattle"
  /\ IF ~isValidCreature(pc) THEN Rejected("Invalid player creature")
     ELSE IF ~isValidCreature(oc) THEN Rejected("Invalid opponent creature")
     ELSE LET battleDifficulty == IF difficulty = NoDifficulty THEN dm.currentDifficulty ELSE difficulty
              aiPersonality == selectAIPersonality(dm, battleDifficulty, rName)
              ai == NewAI(battleDifficulty, aiPersonality, generatePersonality(rTraits))
          IN /\ aiOpponent' = ai
             /\ currentBattle' =
                  [id |-> battleCount + 1,
                   playerCreature |-> pc,
                   opponentCreature |-> oc,
                   difficulty |-> difficulty,
                   currentTurn |-> determineTurnOrder(pc, oc, rTurn),
                   turnCount |-> 0,
                   battleLog |-> addBattleLogEntry(<<>>, LogEntry("battle_start", "null", "null", 0, FALSE, -1)),
                   status |-> "active",
                   winner |-> "null",
                   experienceReward |-> -1,
                   playerActions |-> NoActions,
                   opponentActions |-> NoActions,
                   aiInfo |-> [personality |-> ai.personality, difficulty |-> ai.difficulty,
                               traits |-> ai.traits]]
             /\ battleCount' = battleCount + 1
             /\ error' = ""
             /\ heap' = IF ~heap.held THEN heap
                        ELSE LET player == [ref |-> "p", value |-> pc]
                                 opponent == [ref |-> "o", value |-> oc]
                                 own == <<"b", deepClone(player, "bp").ref, deepClone(opponent, "bo").ref>>
                             IN [held |-> TRUE,
                                 playerCreature |-> player,
                                 opponentCreature |-> opponent,
                                 currentBattle |-> own,
                                 returned |-> deepClone([ref |-> own, value |-> currentBattle'],
                                                        <<"r", "rp", "ro">>)]
             /\ UNCHANGED <<dm, storage, battleHistory, steps>>

\* a variant of the first guard that rejects only when there is no battle
noActiveBattleNullOnly(b) == b.id = 0

\* !this.currentBattle || this.currentBattle.status !== 'active'
noActiveBattle(b) == b.id = 0 \/ b.status # "active"

\* a variant of the second guard that lets either side act at any time
notTurnOfNever(b, actor) == FALSE

\* this.currentBattle.currentTurn !== actor
notTurnOf(b, actor) == b.currentTurn # actor

\* a variant that advances turnCount on the opponent's action too
switchTurnCountingBoth(b, actor) ==
  [b EXCEPT !.currentTurn = IF actor = "player" THEN "opponent" ELSE "player",
            !.turnCount = @ + 1]

\* the switch of turns that ends a successful action of actor
switchTurn(b, actor) ==
  [b EXCEPT !.currentTurn = IF actor = "player" THEN "opponent" ELSE "player",
            !.turnCount = IF actor = "player" THEN @ + 1 ELSE @]

\* the draws of this.random() an action type reads: defend reads none
DrawsFor(actionType) == IF actionType = "defend" THEN {0} ELSE BattleDraws

\* what follows executeAction and updateActionTracking in both execute
\* operations: checkBattleEnd, endBattle (with recordBattleResult and the push
\* on battleHistory), or else the switch of turns
FinishAction(b, actor) ==
  LET winner == battleWinner(b)
  IN IF winner = "null"
     THEN /\ currentBattle' = switchTurn(b, actor)
          /\ error' = ""
          /\ UNCHANGED <<dm, storage, battleHistory>>
     ELSE LET ended == endBattle(b, dm, winner)
              r == recordBattleResult(dm, storage,
                                      IF winner = "player" THEN "true" ELSE "false",
                                      ended.difficulty)
          IN /\ currentBattle' = ended
             /\ dm' = r.dm
             /\ storage' = r.storage
             /\ battleHistory' = IF r.threw THEN battleHistory ELSE Append(battleHistory, ended)
             /\ error' = IF r.threw THEN "TypeError" ELSE ""

\* BattleEngine.executePlayerAction
executePlayerAction(actionType, maxActions) ==
  /\ call' = "executePlayerAction"
  /\ IF noActiveBattle(currentBattle) THEN Rejected("No active battle")
     ELSE IF notTurnOf(currentBattle, "player") THEN Rejected("Not player turn")
     ELSE IF actionType \notin ActionTypes THEN Rejected("Unknown action type")
     ELSE /\ steps < maxActions
          /\ steps' = steps + 1
          /\ \E rDmg \in DrawsFor(actionType), rCrit \in DrawsFor(actionType) :
               FinishAction(executeAction(currentBattle, "player", actionType, rDmg, rCrit), "player")
          /\ heap' = written(heap, currentBattle')
          /\ UNCHANGED <<aiOpponent, battleCount>>

\* BattleEngine.executeAIAction
executeAIAction(maxActions) ==
  /\ call' = "executeAIAction"
  /\ IF noActiveBattle(currentBattle) THEN Rejected("No active battle")
     ELSE IF notTurnOf(currentBattle, "opponent") THEN Rejected("Not opponent turn")
     ELSE /\ steps < maxActions
          /\ steps' = steps + 1
          /\ LET remembered == updateMemory(aiOpponent, currentBattle)
             IN \E decision \in Decisions(remembered, currentBattle) :
                  /\ aiOpponent' = logDecision(remembered, decision, currentBattle)
                  /\ \E rDmg \in DrawsFor(decision), rCrit \in DrawsFor(decision) :
                       FinishAction(executeAction(currentBattle, "opponent", decision, rDmg, rCrit),
                                    "opponent")
          /\ heap' = written(heap, currentBattle')
          /\ UNCHANGED battleCount

\* BattleEngine.resetBattle
resetBattle ==
  /\ call' = "resetBattle"
  /\ error' = ""
  /\ currentBattle' = NullBattle
  /\ aiOpponent' = NoAI
  /\ heap' = [heap EXCEPT !.currentBattle = NoRefs]
  /\ UNCHANGED <<dm, storage, battleHistory, battleCount, steps>>

\* the engine's operations called by a caller that sets no timers
InitiateBattle(pc, oc, difficulty, rTurn, rName, rTraits, maxBattles) ==
  /\ UNCHANGED libraryVars
  /\ initiateBattle(pc, oc, difficulty, rTurn, rName, rTraits, maxBattles)

ExecutePlayerAction(actionType, maxActions) ==
  /\ UNCHANGED libraryVars
  /\ executePlayerAction(actionType, maxActions)

ExecuteAIAction(maxActions) ==
  /\ UNCHANGED libraryVars
  /\ executeAIAction(maxActions)

ResetBattle ==
  /\ UNCHANGED libraryVars
  /\ resetBattle

\* AIOpponent.makeDecision called with the battle state makeAIDecision builds
\* from the battle b
MakeDecision(b, maxDecisions) ==
  /\ aiOpponent.present
  /\ aiOpponent.turnsElapsed < maxDecisions
  /\ call' = "makeDecision"
  /\ error' = ""
  /\ args' = [name |-> "makeDecision", battleState |-> b]
  /\ LET remembered == updateMemory(aiOpponent, b)
     IN \E decision \in Decisions(remembered, b) :
          /\ aiOpponent' = logDecision(remembered, decision, b)
          /\ result' = [name |-> "makeDecision", value |-> decision]
  /\ UNCHANGED <<dm, storage, currentBattle, battleHistory, battleCount, steps, creatures, calls,
                 heap, ui>>

\* getCurrentBattle called by a caller that keeps what it is handed
GetCurrentBattle ==
  /\ heap.held
  /\ call' = "getCurrentBattle"
  /\ error' = ""
  /\ heap' = [heap EXCEPT !.returned =
                IF currentBattle.id = 0 THEN NoObjects.returned
                ELSE deepClone([ref |-> heap.currentBattle, value |-> currentBattle],
                               <<"r", "rp", "ro">>)]
  /\ UNCHANGED <<dm, storage, currentBattle, battleHistory, aiOpponent, battleCount, steps,
                 libraryVars>>

\* the caller writes into the battle object it was handed last:
\* battle.status = status; battle.playerCreature.stats.hp = hp
WriteReturned(status, hp) ==
  /\ heap.held
  /\ heap.returned.ref # NoRefs
  /\ call' = "write"
  /\ error' = ""
  /\ LET battle == heap.returned
         content == [battle.value EXCEPT !.status = status, !.playerCreature.hp = hp]
     IN /\ heap' = [heap EXCEPT
                     !.returned.value = content,
                     !.playerCreature.value =
                        IF heap.playerCreature.ref = battle.ref[2] THEN content.playerCreature ELSE @]
        /\ currentBattle' =
             IF heap.currentBattle[1] = battle.ref[1] THEN content
             ELSE IF heap.currentBattle[2] = battle.ref[2]
                  THEN [currentBattle EXCEPT !.playerCreature = content.playerCreature]
                  ELSE currentBattle
  /\ UNCHANGED <<dm, storage, battleHistory, aiOpponent, battleCount, steps, libraryVars>>

(***************************************************************************)
(* UIController: the battle screen.  Time is counted in units of 300 ms;   *)
(* a callback handed to setTimeout runs when the time has reached its due  *)
(* time, and time does not pass a due callback.  A pending callback is     *)
(* kept with the id of the battle the engine held when it was scheduled    *)
(* (the callback of the AI's action with that of the "thinking" callback   *)
(* that scheduled it); the code keeps no such id, it is bookkeeping for    *)
(* the properties.  fired is the callback that ran in the last step.  The  *)
(* buttons of a panel that is not displayed are not clicked.               *)
(***************************************************************************)
\* the delay 300 of the animation timers and 1500 of the "AI is thinking" timer
AnimationDelay == 1
ThinkingDelay == 5

\* no callback ran in the last step
NoTimer == [kind |-> "none", due |-> 0, battle |-> 0, actionType |-> "null"]

\* the id of this.selectedCreature in the collection
SelectedCreature == "a"

\* the creature generateOpponentCreature returns: one that falls to the first
\* hit and fells the player's creature with its first
GeneratedOpponent == CHOOSE c \in RewardCreatures(TRUE) : c.level = 1

\* UIController.updateBattleActions(battle) on the screen u, reached through
\* updateBattleUI
updateBattleActions(u, battle) ==
  IF battle.status = "active"
  THEN [u EXCEPT
          !.panel = battle.currentTurn = "player",
          !.resultShown = FALSE,
          !.pending = IF battle.currentTurn = "player" THEN @
                      ELSE @ \cup {[kind |-> "think", due |-> u.now + ThinkingDelay,
                                    battle |-> battle.id, actionType |-> "null"]}]
  ELSE [u EXCEPT !.panel = FALSE, !.resultShown = TRUE]

\* the screen after the callback t has been taken from the timers
Fired(t) == [ui EXCEPT !.pending = @ \ {t}, !.fired = t]

\* UIController.startBattleWithCreature: reachable from the battle screen by
\* the Escape key (goBack) and the button of the creature's detail screen
StartBattleWithCreature(rTurn, rName, rTraits) ==
  /\ initiateBattle(Scrapper, GeneratedOpponent, "medium", rTurn, rName, rTraits, MaxUIBattles)
  /\ ui' = updateBattleActions([ui EXCEPT !.fired = NoTimer], currentBattle')
  /\ UNCHANGED <<creatures, args, result, calls>>

\* UIController.executeBattleAction: a click on an action button
ExecuteBattleAction(actionType) ==
  /\ ui.panel
  /\ ui' = [ui EXCEPT !.fired = NoTimer,
                      !.pending = @ \cup {[kind |-> "player", due |-> ui.now + AnimationDelay,
                                           battle |-> currentBattle.id,
                                           actionType |-> actionType]}]
  /\ UNCHANGED <<dm, storage, engineVars, call, error, creatures, args, result, calls>>

\* the callback of executeBattleAction: an error of executePlayerAction ends it
PlayerActionCallback ==
  \E t \in ui.pending :
    /\ t.kind = "player"
    /\ t.due <= ui.now
    /\ executePlayerAction(t.actionType, MaxUIActions)
    /\ ui' = IF error' = "" THEN updateBattleActions(Fired(t), currentBattle') ELSE Fired(t)
    /\ UNCHANGED <<creatures, args, result, calls>>

\* the callback updateBattleActions scheduled: UIController.executeAIAction up
\* to its setTimeout.  makeAIDecision throws on the battle null, which the try
\* block catches; otherwise AIOpponent.makeDecision runs on the current battle.
AIThinkingCallback ==
  \E t \in ui.pending :
    /\ t.kind = "think"
    /\ t.due <= ui.now
    /\ call' = "makeAIDecision"
    /\ IF currentBattle.id = 0
       THEN /\ error' = "TypeError"
            /\ ui' = Fired(t)
            /\ UNCHANGED aiOpponent
       ELSE /\ error' = ""
            /\ LET remembered == updateMemory(aiOpponent, currentBattle)
               IN \E decision \in Decisions(remembered, currentBattle) :
                    aiOpponent' = logDecision(remembered, decision, currentBattle)
            /\ ui' = [Fired(t) EXCEPT
                        !.pending = @ \cup {[kind |-> "act", due |-> ui.now + AnimationDelay,
                                             battle |-> t.battle, actionType |-> "null"]}]
    /\ UNCHANGED <<dm, storage, currentBattle, battleHistory, battleCount, steps, heap,
                   creatures, args, result, calls>>

\* the callback of UIController.executeAIAction: an error of
\* BattleEngine.executeAIAction ends it
AIActionCallback ==
  \E t \in ui.pending :
    /\ t.kind = "act"
    /\ t.due <= ui.now
    /\ executeAIAction(MaxUIActions)
    /\ ui' = IF error' = "" THEN updateBattleActions(Fired(t), currentBattle') ELSE Fired(t)
    /\ UNCHANGED <<creatures, args, result, calls>>

\* UIController.handleBattleEnd: a click on battle-continue-btn; the screen
\* changes to the collection
HandleBattleEnd ==
  /\ ui.resultShown
  /\ resetBattle
  /\ creatures' = IF currentBattle.id # 0 /\ currentBattle.status = "won"
                  THEN awardExperience(creatures, SelectedCreature,
                                       currentBattle.experienceReward).creatures
                  ELSE creatures
  /\ ui' = [ui EXCEPT !.fired = NoTimer, !.panel = FALSE, !.resultShown = FALSE]
  /\ UNCHANGED <<args, result, calls>>

\* UIController.handleRematch: a click on battle-rematch-btn.  resetBattle is
\* followed by initiateBattle, which assigns all that resetBattle cleared.
HandleRematch(rTurn, rName, rTraits) ==
  /\ ui.resultShown
  /\ currentBattle.id # 0
  /\ initiateBattle(currentBattle.playerCreature, GeneratedOpponent, currentBattle.difficulty,
                    rTurn, rName, rTraits, MaxUIBattles)
  /\ ui' = [updateBattleActions([ui EXCEPT !.fired = NoTimer], currentBattle')
              EXCEPT !.resultShown = FALSE]
  /\ UNCHANGED <<creatures, args, result, calls>>

\* 300 ms pass, when no callback is due
Tick ==
  /\ ui.now < MaxTicks
  /\ \A t \in ui.pending : t.due > ui.now
  /\ ui' = [ui EXCEPT !.now = @ + 1, !.fired = NoTimer]
  /\ UNCHANGED <<dm, storage, engineVars, call, error, creatures, args, result, calls>>

Next ==
  \/ \E setup \in BattleSetups, rTurn \in BattleDraws,
        rName \in SessionSetupDraws, rTraits \in SessionSetupDraws :
       InitiateBattle(setup[1], setup[2], setup[3], rTurn, rName, rTraits, MaxBattles)
  \/ \E a \in ActionTypes \cup {BadAction} : ExecutePlayerAction(a, MaxActions)
  \/ ExecuteAIAction(MaxActions)
  \/ ResetBattle

Spec == Init /\ [][Next]_vars

\* one long battle between two creatures that wear each other down slowly
NextDeep ==
  \/ \E d \in {NoDifficulty, "hard"},
        rTurn \in BattleDraws, rName \in SetupDraws, rTraits \in SetupDraws :
       InitiateBattle(Sturdy, Rival, d, rTurn, rName, rTraits, 1)
  \/ \E a \in ActionTypes : ExecutePlayerAction(a, MaxDeepActions)
  \/ ExecuteAIAction(MaxDeepActions)

SpecDeep == InitDM /\ [][NextDeep]_vars

\* One battle between creatures drawn from a grid of stats.
NextStats ==
  \/ \E pc \in StatCreatures(FALSE), oc \in StatCreatures(TRUE), rTurn \in BattleDraws :
       InitiateBattle(pc, oc, NoDifficulty, rTurn, 450, 450, 1)
  \/ \E a \in ActionTypes : ExecutePlayerAction(a, MaxStatActions)
  \/ ExecuteAIAction(MaxStatActions)

SpecStats == InitDM /\ [][NextStats]_vars

\* One short battle between creatures of several levels, on every difficulty.
NextReward ==
  \/ \E pc \in RewardCreatures(FALSE), oc \in RewardCreatures(TRUE),
        d \in Difficulties \cup {NoDifficulty}, rTurn \in BattleDraws :
       InitiateBattle(pc, oc, d, rTurn, 450, 450, 1)
  \/ \E a \in ActionTypes : ExecutePlayerAction(a, MaxRewardActions)
  \/ ExecuteAIAction(MaxRewardActions)

SpecReward == InitDM /\ [][NextReward]_vars

NextDM ==
  \/ \E won \in {"true", "false", "undefined"},
        d \in Difficulties \cup {NoDifficulty, BadDifficulty} :
       RecordResult(won, d)
  \/ \E d \in Difficulties \cup {BadDifficulty} : SetDifficulty(d)
  \/ ResetProgress
  \/ Reload

SpecDM == InitDM /\ [][NextDM]_vars

\* calculateDamage applied to arguments drawn at the start.
NextDamage == ApplyCalculateDamage

SpecDamage == InitDamage /\ [][NextDamage]_vars

\* The collection loadCreatures builds from storage: empty, or the creature
\* "a" as it was generated, with experience past its threshold, wounded at
\* level 2, or at 56 of 80 hit points, next to a second creature "b".
StoredCollections ==
  LET statsA == calculateStats(<<1, 2, 3, 4, 5, 6, 7, 8>>)
      statsB == calculateStats(<<9, 0, 5, 5, 0, 0, 9, 9>>)
      other == StoredCreature("b", <<9, 0, 5, 5, 0, 0, 9, 9>>, 1, 30, 100,
                              statsB.maxHp, statsB.maxHp)
  IN {{},
      {StoredCreature("a", <<1, 2, 3, 4, 5, 6, 7, 8>>, 1, 0, 100, statsA.maxHp, statsA.maxHp),
       other},
      {StoredCreature("a", <<1, 2, 3, 4, 5, 6, 7, 8>>, 1, 150, 100, statsA.maxHp, statsA.maxHp),
       other},
      {StoredCreature("a", <<1, 2, 3, 4, 5, 6, 7, 8>>, 2, 10, 150, 1, statsA.maxHp + 5),
       other},
      {StoredCreature("a", <<1, 2, 3, 4, 5, 6, 7, 8>>, 1, 0, 100, 56, statsA.maxHp),
       other}}

InitCreatures ==
  /\ storage = NoStorage
  /\ dm = NewManager
  /\ currentBattle = NullBattle
  /\ battleHistory = <<>>
  /\ aiOpponent = NoAI
  /\ battleCount = 0
  /\ steps = 0
  /\ call = "constructor"
  /\ error = ""
  /\ creatures \in StoredCollections
  /\ args = NoCall
  /\ result = NoCall
  /\ calls = 0
  /\ heap = NoObjects
  /\ ui = NoTimers

\* Leveling calls: a stored id or an unknown one, an amount that is negative,
\* zero, one threshold's worth or unbounded.
NextLevel ==
  \/ \E id \in {"a", "b", "zz"}, amount \in {-5, 0, 120, Infinity} :
       AwardExperience(id, amount)
  \/ \E id \in {"a", "b", "zz"}, levels \in {0, 1, 2} : LevelUpCreature(id, levels)

SpecLevel == InitCreatures /\ [][NextLevel]_vars

\* creature data a caller adds or an import text holds: two ids, two valid
\* barcodes and one too short
CandidateCreatures ==
  {StoredCreature(id, barcode, 1, 0, 100, 90, 90) :
     id \in {"a", "b"},
     barcode \in {<<1, 2, 3, 4, 5, 6, 7, 8>>, <<9, 0, 5, 5, 0, 0, 9, 9>>, <<1, 2, 3>>}}

NextCollection ==
  \/ \E c \in CandidateCreatures : AddCreature(c)
  \/ \E id \in {"a", "b", "zz"} : RemoveCreature(id)
  \/ ClearCollection
  \/ \E jsonData \in {[parses |-> FALSE, creatures |-> <<>>]}
                       \cup {[parses |-> TRUE, creatures |-> list] :
                               list \in {<<>>} \cup {<<c>> : c \in CandidateCreatures}
                                          \cup {<<c, d>> : c, d \in CandidateCreatures}},
        merge \in BOOLEAN :
       ImportCollection(jsonData, merge)

SpecCollection == InitCreatures /\ [][NextCollection]_vars

\* One BarcodeProcessor function applied to one argument: validateBarcode and
\* generateCreature to texts around the length limits and with a character
\* that is no digit (-1), calculateStats to valid barcodes, createSeededRandom
\* to seeds around 0 and around the modulus, followed by calls of the closure.
ProcessorArgs ==
  LET digits(n, d) == [i \in 1..n |-> d]
      texts == {digits(n, 7) : n \in {0, 7, 8, 9, 19, 20, 21}}
                 \cup {[digits(n, 3) EXCEPT ![n] = -1] : n \in {8, 20}}
                 \cup {[digits(8, 3) EXCEPT ![1] = -1], <<1, 2, 3, 4, 5, 6, 7, 8>>}
      barcodes == [1..8 -> {0, 4, 9}]
                    \cup {digits(n, d) : n \in {12, 13, 20}, d \in {0, 5, 9}}
                    \cup {<<1, 2, 3, 4, 5, 6, 7, 8>>, <<9, 0, 5, 5, 0, 0, 9, 9>>}
      seeds == {-LcgModulus, 1 - LcgModulus, 2 - LcgModulus, -16807, -31, -1, 0,
                1, 31, 6324, 16807, LcgModulus - 1, LcgModulus}
  IN {[name |-> "validateBarcode", barcode |-> b] : b \in texts}
       \cup {[name |-> "generateCreature", barcode |-> b] : b \in texts}
       \cup {[name |-> "calculateStats", barcode |-> b] : b \in barcodes}
       \cup {[name |-> "createSeededRandom", seed |-> s] : s \in seeds}

InitProcessor == args \in ProcessorArgs /\ Idle

NextProcessor ==
  \/ Returns("validateBarcode", validateBarcode(args.barcode))
  \/ Returns("generateCreature", generateCreature(args.barcode, "a"))
  \/ Returns("calculateStats", calculateStats(args.barcode))
  \/ Returns("createSeededRandom", createSeededRandom(args.seed))
  \/ CallRandom

SpecProcessor == InitProcessor /\ [][NextProcessor]_vars

\* Generation calls in a row on an empty collection: the barcodes typed into
\* the input field and generated directly, two valid ones and one too short.
NextGenerate ==
  \/ \E b \in {<<1, 2, 3, 4, 5, 6, 7, 8>>, <<9, 0, 5, 5, 0, 0, 9, 9>>, <<1, 2, 3>>},
        id \in {"a", "b"} :
       GenerateCreatureFromInput(b, id, MaxGenerateCalls)
  \/ \E b \in {<<1, 2, 3, 4, 5, 6, 7, 8>>, <<9, 0, 5, 5, 0, 0, 9, 9>>, <<1, 2, 3>>},
        id \in {"a", "b"} :
       ProcessorCall([name |-> "generateCreature", barcode |-> b, id |-> id],
                     generateCreature(b, id), MaxGenerateCalls)
  \/ \E b \in {<<1, 2, 3, 4, 5, 6, 7, 8>>, <<9, 0, 5, 5, 0, 0, 9, 9>>} :
       ProcessorCall([name |-> "calculateStats", barcode |-> b],
                     calculateStats(b), MaxGenerateCalls)
  \/ \E b \in {<<1, 2, 3, 4, 5, 6, 7, 8>>, <<9, 0, 5, 5, 0, 0, 9, 9>>} :
       ProcessorCall([name |-> "generateCreatureName", barcode |-> b],
                     generateCreatureName(b), MaxGenerateCalls)

InitGenerate == Idle /\ args = NoCall

SpecGenerate == InitGenerate /\ [][NextGenerate]_vars

\* One battle whose caller keeps the creature objects it passed and the battle
\* objects it was handed, and writes into the latter.
InitCopies ==
  /\ storage = NoStorage
  /\ dm = NewManager
  /\ currentBattle = NullBattle
  /\ battleHistory = <<>>
  /\ aiOpponent = NoAI
  /\ battleCount = 0
  /\ steps = 0
  /\ call = "constructor"
  /\ error = ""
  /\ creatures = {}
  /\ args = NoCall
  /\ result = NoCall
  /\ calls = 0
  /\ heap = [NoObjects EXCEPT !.held = TRUE]
  /\ ui = NoTimers

NextCopies ==
  \/ \E pc \in {Sturdy, Scrapper}, rTurn \in {100, 999} :
       InitiateBattle(pc, Rival, "easy", rTurn, 450, 450, 1)
  \/ \E a \in ActionTypes : ExecutePlayerAction(a, MaxCopyActions)
  \/ ExecuteAIAction(MaxCopyActions)
  \/ ResetBattle
  \/ GetCurrentBattle
  \/ \E hp \in {0, 9} : WriteReturned("lost", hp)

SpecCopies == InitCopies /\ [][NextCopies]_vars

\* The first action of one battle between creatures over a grid of speeds.
NextTurn ==
  \/ \E ps \in {0, 5, 6, 10, 11, 12, 60}, os \in {0, 5, 6, 10, 11, 12, 60},
        rTurn \in {0, 100, 500, 999} :
       InitiateBattle(Creature("Hero", 10, 10, 5, 2, ps, 6, FALSE, -1),
                      Creature("Foe", 10, 10, 5, 2, os, 6, TRUE, 50),
                      NoDifficulty, rTurn, 450, 450, 1)
  \/ \E a \in ActionTypes : ExecutePlayerAction(a, 1)
  \/ ExecuteAIAction(1)

SpecTurn == InitDM /\ [][NextTurn]_vars

\* One AIOpponent of a medium battle asked for decisions on battle states that
\* differ in the player's last action.
InitMemory ==
  /\ storage = NoStorage
  /\ dm = NewManager
  /\ currentBattle = NullBattle
  /\ battleHistory = <<>>
  /\ aiOpponent = NewAI("medium", "Berserker", "Berserker")
  /\ battleCount = 0
  /\ steps = 0
  /\ call = "constructor"
  /\ error = ""
  /\ LibraryIdle

NextMemory ==
  \E last \in {"null", "attack", "defend"} :
    MakeDecision([NullBattle EXCEPT !.id = 1, !.status = "active", !.currentTurn = "opponent",
                                    !.playerActions.lastAction = last,
                                    !.opponentActions.specialAttacksUsed = SpecialCap],
                 MaxDecisions)

SpecMemory == InitMemory /\ [][NextMemory]_vars

\* The pure parts of the AIOpponent's decision applied to arguments: a memory
\* of player actions, a situation with the traits of a personality, a
\* situation with the draws of Math.random().
AIArgs ==
  LET memories == UNION {[1..n -> ActionTypes] : n \in 0..MaxObserved}
  IN {[name |-> "analyzePlayerPattern", actions |-> m] : m \in memories}
     \cup {[name |-> "determineStrategy", traits |-> t,
            situation |-> [aiHealthStatus |-> h, attackAdvantage |-> aa, defenseAdvantage |-> da,
                           urgencyHigh |-> u, playerPattern |-> analyzePlayerPattern(m)]] :
             t \in {PersonalityNames[i] : i \in 1..5},
             h \in {"healthy", "wounded", "critical", "desperate"},
             aa \in {0, 11}, da \in {0, 11}, u \in BOOLEAN,
             m \in {<<>>, <<"attack", "attack">>, <<"defend", "defend">>, <<"attack", "special">>}}
     \cup {[name |-> "executeTacticalStrategy", r1 |-> r1, r2 |-> r2,
            situation |-> [canUseSpecial |-> c, urgencyMid |-> u,
                           playerPattern |-> analyzePlayerPattern(m)],
            actions |-> m] :
             m \in memories, c \in BOOLEAN, u \in BOOLEAN, r1 \in {0, 900}, r2 \in {0, 600, 900}}

InitAI == args \in AIArgs /\ Idle

NextAI ==
  \/ Returns("analyzePlayerPattern", analyzePlayerPattern(args.actions))
  \/ Returns("determineStrategy", determineStrategy(args.situation, args.traits))
  \/ Returns("executeTacticalStrategy", executeTacticalStrategy(args.situation, args.r1, args.r2))

SpecAI == InitAI /\ [][NextAI]_vars

\* The battle screen of the UIController: the collection holds the selected
\* creature, and the user starts battles, clicks and waits.
InitUI ==
  /\ storage = NoStorage
  /\ dm = NewManager
  /\ currentBattle = NullBattle
  /\ battleHistory = <<>>
  /\ aiOpponent = NoAI
  /\ battleCount = 0
  /\ steps = 0
  /\ call = "constructor"
  /\ error = ""
  /\ creatures = {StoredCreature(SelectedCreature, <<1, 2, 3, 4, 5, 6, 7, 8>>, 1, 0, 100, 80, 80)}
  /\ args = NoCall
  /\ result = NoCall
  /\ calls = 0
  /\ heap = NoObjects
  /\ ui = NoTimers

NextUI ==
  \/ \E rTurn \in BattleDraws, rName \in SessionSetupDraws, rTraits \in SessionSetupDraws :
       StartBattleWithCreature(rTurn, rName, rTraits)
  \/ \E a \in {"attack", "defend"} : ExecuteBattleAction(a)
  \/ PlayerActionCallback
  \/ AIThinkingCallback
  \/ AIActionCallback
  \/ HandleBattleEnd
  \/ \E rTurn \in BattleDraws, rName \in SessionSetupDraws, rTraits \in SessionSetupDraws :
       HandleRematch(rTurn, rName, rTraits)
  \/ Tick

SpecUI == InitUI /\ [][NextUI]_vars

\* The DifficultyManager started on stored progress data.
NextLoad ==
  \/ \E won \in {"true", "false"}, d \in Difficulties \cup {NoDifficulty} :
       RecordUpTo(won, d, MaxLoadRecords, MaxLosses)
  \/ \E d \in Difficulties \cup {BadDifficulty} : SetDifficulty(d)
  \/ \E d \in Difficulties \cup {BadDifficulty} : UnlockDifficulty(d)
  \/ ResetProgress
  \/ Reload

SpecLoad == InitLoad /\ [][NextLoad]_vars

(***************************************************************************)
(* Properties                                                              *)
(***************************************************************************)
Terminal(b) == b.status \in {"won", "lost"}

ExecuteCalls == {"executePlayerAction", "executeAIAction"}

\* nothing the battle engine or the difficulty manager holds changes
BattleUntouched ==
  /\ currentBattle' = currentBattle
  /\ battleHistory' = battleHistory
  /\ aiOpponent' = aiOpponent
  /\ dm' = dm
  /\ storage' = storage

\* C1: once a battle is won or lost, every executePlayerAction and
\* executeAIAction call fails with 'No active battle' and changes nothing, and
\* as long as the engine holds that battle it stays as it ended: its status
\* never returns to active.
C1_TerminalRejectsActions ==
  [][Terminal(currentBattle) =>
       /\ (call' \in ExecuteCalls => error' = "No active battle" /\ BattleUntouched)
       /\ (currentBattle'.id = currentBattle.id => currentBattle' = currentBattle)]_vars

\* C1 witness: an action was called on an ended battle and was rejected
C1_Witness ==
  /\ Terminal(currentBattle)
  /\ call \in ExecuteCalls
  /\ error = "No active battle"

\* C2: the battle the engine holds is won or lost exactly when one of its two
\* creatures is at 0 hp; it is active exactly when both have hp > 0.
C2_TerminalIffZeroHp ==
  currentBattle.id # 0 =>
    (Terminal(currentBattle) <=>
       (currentBattle.playerCreature.hp = 0 \/ currentBattle.opponentCreature.hp = 0))

\* C3: a won battle has the opponent at 0 hp, the player above 0 and the
\* player as winner; a lost battle has the player at 0 hp and the opponent as
\* winner.
C3_WinnerIsTheSurvivor ==
  /\ currentBattle.status = "won" =>
       /\ currentBattle.opponentCreature.hp = 0
       /\ currentBattle.playerCreature.hp > 0
       /\ currentBattle.winner = "player"
  /\ currentBattle.status = "lost" =>
       /\ currentBattle.playerCreature.hp = 0
       /\ currentBattle.winner = "opponent"

\* C3 witness: a battle ended with both creatures at 0 hp, and it is lost
C3_Witness ==
  /\ currentBattle.status = "lost"
  /\ currentBattle.opponentCreature.hp = 0
  /\ Len(currentBattle.battleLog) >= 3

\* C4: executePlayerAction on the opponent's turn and executeAIAction on the
\* player's turn of an active battle fail with an error and change nothing.
C4_OutOfTurnRejected ==
  [][currentBattle.status = "active" =>
       /\ (call' = "executePlayerAction" /\ currentBattle.currentTurn = "opponent"
             => error' = "Not player turn" /\ BattleUntouched)
       /\ (call' = "executeAIAction" /\ currentBattle.currentTurn = "player"
             => error' = "Not opponent turn" /\ BattleUntouched)]_vars

\* C4 witness: the player's call was rejected on the opponent's turn, after
\* the player had acted
C4_Witness ==
  /\ currentBattle.status = "active"
  /\ currentBattle.currentTurn = "opponent"
  /\ currentBattle.turnCount >= 1
  /\ call = "executePlayerAction"
  /\ error = "Not player turn"

PlayerActionEntries(b) ==
  Cardinality({i \in 1..Len(b.battleLog) :
                 b.battleLog[i].type = "action" /\ b.battleLog[i].actor = "player"})

\* the action before the battle_end entry is the player's
EndedByPlayer(b) ==
  /\ Terminal(b)
  /\ Len(b.battleLog) >= 2
  /\ b.battleLog[Len(b.battleLog) - 1].type = "action"
  /\ b.battleLog[Len(b.battleLog) - 1].actor = "player"

TurnCountMatchesLog(b) ==
  b.turnCount = PlayerActionEntries(b) - (IF EndedByPlayer(b) THEN 1 ELSE 0)

\* an execute call that was not rejected: it returned, or it threw out of
\* endBattle after the action had been applied
Applied == call' \in ExecuteCalls /\ error' \in {"", "TypeError"}

\* C5: a successful action that leaves the battle active hands the turn to the
\* other side; turnCount grows by one on such a player action and is changed
\* by no opponent action and by no action that ends the battle; so turnCount
\* is the number of player actions that did not end the battle.
C5_TurnsAlternateAndCount ==
  [][/\ (currentBattle.status = "active" /\ Applied /\ steps' = steps + 1) =>
          IF currentBattle'.status = "active"
          THEN /\ currentBattle'.currentTurn # currentBattle.currentTurn
               /\ currentBattle'.turnCount =
                    currentBattle.turnCount + (IF call' = "executePlayerAction" THEN 1 ELSE 0)
          ELSE currentBattle'.turnCount = currentBattle.turnCount
     /\ TurnCountMatchesLog(currentBattle')]_vars

\* C5 witness: the player acted, the opponent acted, and the turn is the
\* player's again with turnCount 1
C5_Witness ==
  /\ currentBattle.status = "active"
  /\ currentBattle.currentTurn = "player"
  /\ currentBattle.turnCount = 1
  /\ currentBattle.opponentActions.lastAction # "null"

\* C6: a decision the AI makes when the opponent has used 3 or more special
\* attacks is not 'special'.
C6_NoSpecialPastCap ==
  [][(/\ currentBattle.status = "active"
      /\ currentBattle.opponentActions.specialAttacksUsed >= SpecialCap
      /\ call' = "executeAIAction"
      /\ steps' = steps + 1)
     => currentBattle'.opponentActions.lastAction # "special"]_vars

\* C7: neither side's specialAttacksUsed ever exceeds 3.
C7_SpecialsAtMostThree ==
  /\ currentBattle.playerActions.specialAttacksUsed <= SpecialCap
  /\ currentBattle.opponentActions.specialAttacksUsed <= SpecialCap

\* C8: the action that ends a battle reports it to recordBattleResult, which
\* counts one more result, and appends the ended battle to battleHistory.
C8_EndIsRecordedAndArchived ==
  [][(/\ currentBattle.status = "active"
      /\ currentBattle'.id = currentBattle.id
      /\ Terminal(currentBattle'))
     => /\ Recorded(dm') = Recorded(dm) + 1
        /\ battleHistory' = Append(battleHistory, currentBattle')]_vars

MediumWins(m) == IF "medium" \in m.battleStats.keys THEN m.battleStats.wins["medium"] ELSE 0

C10_MediumNeedsEasyWins ==
  isDifficultyUnlocked(dm, "medium") => dm.battleStats.wins["easy"] >= MediumBattlesWon

C12_HpWithinBounds ==
  /\ 0 <= currentBattle.playerCreature.hp
  /\ currentBattle.playerCreature.hp <= currentBattle.playerCreature.maxHp
  /\ 0 <= currentBattle.opponentCreature.hp
  /\ currentBattle.opponentCreature.hp <= currentBattle.opponentCreature.maxHp

\* C12 witness: the player defended at full hp and stayed at maxHp, the
\* opponent defended from 3 hp to 4, and the player's next hit of more than 4
\* left the opponent at 0
C12_Witness ==
  /\ Len(currentBattle.battleLog) = 5
  /\ currentBattle.battleLog[2].actor = "player"
  /\ currentBattle.battleLog[2].actionType = "defend"
  /\ currentBattle.playerCreature.maxHp = 10
  /\ currentBattle.playerCreature.hp = 10
  /\ currentBattle.opponentActions.lastAction = "defend"
  /\ currentBattle.opponentCreature.maxHp = 12
  /\ currentBattle.playerActions.lastDamageDealt > 4
  /\ currentBattle.opponentCreature.hp = 0

\* C13: calculateDamage returns at least 1 for every attack and defense stat,
\* both attack types, a defending or not defending defender, and every draw.
C13_DamageAtLeastOne ==
  result.name = "calculateDamage" => result.value >= 1

\* C13 witness: attack 0 against a defended defense, lowest draw: the base
\* damage 1 times 0.8 floors to 0 and 1 is returned
C13_Witness ==
  /\ result.name = "calculateDamage"
  /\ args.attack = 0 /\ args.defense = MaxStat /\ args.defends /\ args.r = 0
  /\ result.value = 1

IsPrefix(s, t) == Len(s) <= Len(t) /\ SubSeq(t, 1, Len(s)) = s

ActionEntries(b) ==
  Cardinality({i \in 1..Len(b.battleLog) : b.battleLog[i].type = "action"})

\* C14: as long as the engine holds the same battle its log only grows at the
\* end; an action that is carried out adds exactly one 'action' entry, which
\* names the actor and the action type, directly after the old log; a
\* rejected action adds nothing.
C14_LogAppendOnly ==
  [][(currentBattle.id # 0 /\ currentBattle'.id = currentBattle.id) =>
       /\ IsPrefix(currentBattle.battleLog, currentBattle'.battleLog)
       /\ (call' \in ExecuteCalls /\ steps' = steps + 1) =>
            /\ ActionEntries(currentBattle') = ActionEntries(currentBattle) + 1
            /\ LET e == currentBattle'.battleLog[Len(currentBattle.battleLog) + 1]
               IN /\ e.type = "action"
                  /\ e.actor = (IF call' = "executePlayerAction" THEN "player" ELSE "opponent")
                  /\ e.actionType \in ActionTypes
                  /\ e.damage >= 0
       /\ (call' \in ExecuteCalls /\ steps' = steps) =>
            currentBattle'.battleLog = currentBattle.battleLog]_vars

\* C14 witness: two actions were logged and then a call was rejected
C14_Witness ==
  /\ Len(currentBattle.battleLog) >= 3
  /\ currentBattle.battleLog[2].type = "action"
  /\ currentBattle.battleLog[3].type = "action"
  /\ call \in ExecuteCalls
  /\ error \in {"Not player turn", "Not opponent turn", "Unknown action type"}

\* the reward of the spec's formula, for levels pl and ol on a tier
RewardFormula(pl, ol, tier) ==
  ((50 + ol * 10 + (IF ol > pl THEN (ol - pl) * 20 ELSE 0)) * experienceMultiplier10(tier)) \div 10

C16_AtMostFiftyLevelUps ==
  (result.name = "awardExperience" /\ result.success) => result.levelsGained <= LevelUpCheck

\* C17: when an accepted awardExperience(id, gained) finds experience + gained
\* >= experienceToNext, the creature's level is strictly greater afterwards and
\* its experience is the old experience plus gained minus the thresholds of
\* the levels passed: the stored experienceToNext for the first, then
\* calculateExperienceToNext of each level entered before the last.
C17_LevelUpConsumesThresholds ==
  [][\A c \in creatures :
       LET gained == args'.experienceGained
           total == IF c.experience = Infinity \/ gained = Infinity
                    THEN Infinity
                    ELSE c.experience + gained
           RECURSIVE passed(_)
           passed(level) ==
             IF level <= c.level THEN c.experienceToNext
             ELSE passed(level - 1) + calculateExperienceToNext(level)
       IN (/\ args'.name = "awardExperience"
           /\ args'.creatureId = c.id
           /\ result'.success
           /\ total >= c.experienceToNext)
          => \E d \in creatures' :
               /\ d.id = c.id
               /\ d.level > c.level
               /\ d.experience = IF total = Infinity THEN Infinity
                                 ELSE total - passed(d.level - 1)]_vars

\* C17 witness: an award of 120 took a creature through two levels
C17_Witness ==
  /\ result.name = "awardExperience"
  /\ result.success
  /\ args.experienceGained = 120
  /\ result.levelsGained = 2

\* C18: awardExperience(id, 0) leaves the level, experience, experienceToNext
\* and stats of every creature of the collection as they were.
C18_ZeroAwardChangesNothing ==
  [][(args'.name = "awardExperience" /\ args'.experienceGained = 0)
       => creatures' = creatures]_vars

\* C19: no two creatures of the collection share a barcode, whatever sequence
\* of addCreature, removeCreature, clearCollection and importCollection calls
\* was made.
C19_BarcodesUnique ==
  \A c \in creatures, d \in creatures : c.barcode = d.barcode => c = d

\* C20: awardExperience with a negative amount or an unknown id, and
\* levelUpCreature with levels < 1 or an unknown id, return a value with
\* success false, throw nothing and leave every creature as it was.
C20_InvalidLevelingRejected ==
  [][LET unknown == ~\E c \in creatures : c.id = args'.creatureId
         invalid == \/ /\ args'.name = "awardExperience"
                       /\ (unknown \/ args'.experienceGained < 0)
                    \/ /\ args'.name = "levelUpCreature"
                       /\ (unknown \/ args'.levels < 1)
     IN invalid => /\ result'.name = args'.name
                   /\ ~result'.success
                   /\ error' = ""
                   /\ creatures' = creatures]_vars

\* C20 witness: a negative amount was offered to a creature of the collection
C20_Witness ==
  /\ args.name = "awardExperience"
  /\ args.experienceGained < 0
  /\ \E c \in creatures : c.id = args.creatureId
  /\ ~result.success

C22_StatsInRange ==
  (result.name = "calculateStats" /\ validateBarcode(args.barcode))
    => /\ 80 <= result.value.hp /\ result.value.hp <= 120
       /\ 30 <= result.value.attack /\ result.value.attack <= 70
       /\ 25 <= result.value.defense /\ result.value.defense <= 65
       /\ 20 <= result.value.speed /\ result.value.speed <= 60
       /\ result.value.maxHp = result.value.hp

\* C22 witness: calculateStats returned the smallest hp and the largest speed
C22_Witness ==
  /\ result.name = "calculateStats"
  /\ validateBarcode(args.barcode)
  /\ result.value.hp = 80
  /\ result.value.speed = 60

\* C23: validateBarcode is true exactly for the texts of 8 to 20 characters
\* that are all digits, and generateCreature returns a creature exactly for
\* the texts validateBarcode accepts.
C23_ValidationBoundary ==
  /\ result.name = "validateBarcode"
       => (result.value <=> /\ Len(args.barcode) \in 8..20
                            /\ \A i \in 1..Len(args.barcode) : args.barcode[i] >= 0)
  /\ result.name = "generateCreature"
       => (result.value.created <=> validateBarcode(args.barcode))

\* C23 witness: a text of 20 digits was accepted
C23_Witness ==
  /\ result.name = "validateBarcode"
  /\ Len(args.barcode) = 20
  /\ result.value

\* C24: the current of the seeded generator lies in 1..2147483646 after
\* createSeededRandom and after every call, for every integer seed, so that
\* (current - 1) / 2147483646 lies in [0, 1).
C24_GeneratorStateInRange ==
  result.name \in {"createSeededRandom", "random"}
    => (1 <= result.value /\ result.value <= LcgModulus - 1)

\* C25: the difficulty field of every battle initiateBattle created is 'easy',
\* 'medium' or 'hard', also when the difficulty argument was omitted.
C25_BattleDifficultyIsATier ==
  currentBattle.id # 0 => currentBattle.difficulty \in Difficulties

\* C26: the battle works on copies.  A call of executePlayerAction,
\* executeAIAction, resetBattle or getCurrentBattle leaves the creature objects
\* the caller passed to initiateBattle as they were, and a write of the caller
\* into the battle object initiateBattle or getCurrentBattle handed it leaves
\* the engine's current battle as it was.
C26_BattleWorksOnCopies ==
  [][/\ call' \in ExecuteCalls \cup {"resetBattle", "getCurrentBattle"} =>
          /\ heap'.playerCreature = heap.playerCreature
          /\ heap'.opponentCreature = heap.opponentCreature
     /\ call' = "initiateBattle" /\ error' = "" =>
          /\ heap'.playerCreature.value = currentBattle'.playerCreature
          /\ heap'.opponentCreature.value = currentBattle'.opponentCreature
     /\ call' = "write" => currentBattle' = currentBattle]_vars

\* both creatures of the battle were damaged while the caller's objects keep
\* their hp, and the caller wrote into the battle it was handed
C26_Witness ==
  /\ heap.held
  /\ currentBattle.status = "active"
  /\ currentBattle.playerCreature.hp < heap.playerCreature.value.hp
  /\ currentBattle.opponentCreature.hp < heap.opponentCreature.value.hp
  /\ heap.returned.value.status = "lost"
  /\ heap.returned.value.turnCount > 0

\* C27: a battle that initiateBattle created starts with the player's turn
\* when the player's speed is at least 1.2 times the opponent's, whatever the
\* draw, and otherwise with the opponent's turn when the opponent's speed is at
\* least 1.2 times the player's, whatever the draw.
C27_SpeedAdvantageGoesFirst ==
  [][(call' = "initiateBattle" /\ error' = "") =>
       LET playerSpeed == currentBattle'.playerCreature.speed
           opponentSpeed == currentBattle'.opponentCreature.speed
       IN /\ 10 * playerSpeed >= 12 * opponentSpeed => currentBattle'.currentTurn = "player"
          /\ (10 * playerSpeed < 12 * opponentSpeed /\ 10 * opponentSpeed >= 12 * playerSpeed)
               => currentBattle'.currentTurn = "opponent"]_vars

\* a battle that started with the player's turn on a speed advantage of 1.2
\* exactly
C27_Witness ==
  /\ currentBattle.id # 0
  /\ currentBattle.turnCount = 0
  /\ call = "initiateBattle"
  /\ currentBattle.playerCreature.speed = 12
  /\ currentBattle.opponentCreature.speed = 10
  /\ currentBattle.currentTurn = "player"
  /\ aiOpponent.present

\* C28: a successful 'defend' of either side adds a log entry of damage 0 and
\* leaves the other creature and the other side's action tracking as they
\* were; of the acting creature it changes the hp only, to
\* min(maxHp, hp + floor(maxHp * 0.1)).
C28_DefendOnlyHeals ==
  [][LET actor == currentBattle.currentTurn
         acting(b) == IF actor = "player" THEN b.playerCreature ELSE b.opponentCreature
         other(b) == IF actor = "player" THEN b.opponentCreature ELSE b.playerCreature
         actingActions(b) == IF actor = "player" THEN b.playerActions ELSE b.opponentActions
         otherActions(b) == IF actor = "player" THEN b.opponentActions ELSE b.playerActions
         entry == currentBattle'.battleLog[Len(currentBattle.battleLog) + 1]
     IN (/\ call' \in ExecuteCalls
         /\ error' = ""
         /\ actingActions(currentBattle').lastAction = "defend")
        => /\ entry.actionType = "defend" /\ entry.damage = 0
           /\ other(currentBattle') = other(currentBattle)
           /\ otherActions(currentBattle') = otherActions(currentBattle)
           /\ acting(currentBattle') =
                [acting(currentBattle) EXCEPT
                   !.hp = Min2(acting(currentBattle).maxHp,
                               acting(currentBattle).hp + acting(currentBattle).maxHp \div 10)]]_vars

\* the player defended at 3 of 12 hp and the opponent defended at full hp
C28_Witness ==
  /\ currentBattle.playerActions.lastAction = "defend"
  /\ currentBattle.opponentActions.lastAction = "defend"
  /\ currentBattle.playerCreature.maxHp = 12
  /\ currentBattle.playerCreature.hp = 4
  /\ currentBattle.opponentCreature.hp = currentBattle.opponentCreature.maxHp

\* the last n elements of a sequence
LastN(seq, n) == IF Len(seq) > n THEN SubSeq(seq, Len(seq) - n + 1, Len(seq)) ELSE seq

\* C29: the AI memory holds at most 5 player actions and at most 10 own
\* decisions; the decisions kept are those of the latest turns, one per turn,
\* and every makeDecision call leaves as player actions the last 5 of those
\* it held followed by the action it observed, and as own decisions the last
\* 10 of those it held followed by the one it returned.
C29_MemoryWindows ==
  /\ [](/\ Len(aiOpponent.playerActions) <= 5
        /\ Len(aiOpponent.ownActions) <= 10
        /\ \A i \in 1..Len(aiOpponent.ownActions) :
             aiOpponent.ownActions[i].turn =
               aiOpponent.turnsElapsed - Len(aiOpponent.ownActions) + i)
  /\ [][call' = "makeDecision" =>
         LET observed == args'.battleState.playerActions.lastAction
             seen == IF observed = "null" THEN aiOpponent.playerActions
                     ELSE Append(aiOpponent.playerActions, observed)
             decided == Append(aiOpponent.ownActions,
                               aiOpponent'.ownActions[Len(aiOpponent'.ownActions)])
         IN /\ aiOpponent'.playerActions = LastN(seen, 5)
            /\ aiOpponent'.ownActions = LastN(decided, 10)
            /\ aiOpponent'.ownActions[Len(aiOpponent'.ownActions)].action = result'.value]_vars

\* after eleven decisions the memory is full: the first decision and the first
\* observed action are gone
C29_Witness ==
  /\ aiOpponent.turnsElapsed = 11
  /\ Len(aiOpponent.ownActions) = 10
  /\ aiOpponent.ownActions[1].turn = 2
  /\ aiOpponent.playerActions = <<"attack", "defend", "defend", "attack", "attack">>

\* the damage of the actions of actor in the first n entries of a battle log
RECURSIVE DamageBy(_, _, _)
DamageBy(log, actor, n) ==
  IF n = 0 THEN 0
  ELSE DamageBy(log, actor, n - 1)
       + (IF log[n].type = "action" /\ log[n].actor = actor THEN log[n].damage ELSE 0)

\* C30: when executeAIAction has the AI decide, the damageTaken of its memory
\* is the damage of all the player's actions of the battle so far and its
\* damageDealt is the damage of all the opponent's earlier actions.
C30_MemoryDamageIsActualDamage ==
  [][(call' = "executeAIAction" /\ aiOpponent'.turnsElapsed = aiOpponent.turnsElapsed + 1) =>
       /\ aiOpponent'.damageTaken =
            DamageBy(currentBattle.battleLog, "player", Len(currentBattle.battleLog))
       /\ aiOpponent'.damageDealt =
            DamageBy(currentBattle.battleLog, "opponent", Len(currentBattle.battleLog))]_vars

\* the share of action x in a memory of player actions exceeds 0.6
Heavy(actions, x) == 10 * CountOf(actions, x) > 6 * Len(actions)

\* C31: analyzePlayerPattern classifies a memory of at most 5 player actions as
\* heavy in the action whose share exceeds 0.6 (the model names that type by
\* the action), else as 'alternating' when it has at least 4 entries of period
\* 2, else as 'escalating' when it ends in attack, special, defend, else as
\* 'random'.
C31_PatternClassification ==
  (result.name = "analyzePlayerPattern" /\ Len(args.actions) <= 5) =>
    LET actions == args.actions
    IN result.value.type =
         IF \E x \in ActionTypes : Heavy(actions, x)
         THEN CHOOSE x \in ActionTypes : Heavy(actions, x)
         ELSE IF Len(actions) >= 4 /\ \A i \in 3..Len(actions) : actions[i] = actions[i - 2]
              THEN "alternating"
              ELSE IF Len(actions) >= 3
                      /\ SubSeq(actions, Len(actions) - 2, Len(actions)) = <<"attack", "special", "defend">>
                   THEN "escalating"
                   ELSE "random"

\* C32: determineStrategy returns a strategy of maximal score, and of the
\* strategies of maximal score the first in the order aggressive, defensive,
\* tactical.
C32_FirstHighestStrategy ==
  result.name = "determineStrategy" =>
    LET scores == strategyScores(args.situation, args.traits)
        keys == <<"aggressive", "defensive", "tactical">>
        highest == Max2(scores.aggressive, Max2(scores.defensive, scores.tactical))
        firstHighest == CHOOSE i \in 1..3 :
                          /\ scores[keys[i]] = highest
                          /\ \A j \in 1..(i - 1) : scores[keys[j]] < highest
    IN result.value = keys[firstHighest]

\* C33: when the pattern detected in the memory has a confidence above 0.6, the
\* tactical strategy answers the player's most common action with its counter:
\* defend against attack, attack against special, special against defend.
C33_TacticalCounters ==
  (result.name = "executeTacticalStrategy" /\ args.situation.playerPattern.confident) =>
    LET mostCommon == CHOOSE x \in ActionTypes : Heavy(args.actions, x)
    IN result.value = CASE mostCommon = "attack" -> "defend"
                        [] mostCommon = "special" -> "attack"
                        [] mostCommon = "defend" -> "special"

\* a memory of four defends and one attack is answered with 'special' on draws
\* that would otherwise give 'attack'
C33_Witness ==
  /\ result.name = "executeTacticalStrategy"
  /\ args.actions = <<"defend", "defend", "attack", "defend", "defend">>
  /\ args.r1 = 900 /\ args.r2 = 0
  /\ result.value = "special"

C37_TraitsOfNamedPersonality ==
  (currentBattle.id # 0 /\ aiOpponent.present)
    => LET used == Traits(aiOpponent.traits)
           named == Traits(currentBattle.aiInfo.personality)
       IN /\ used.attackPreference = named.attackPreference
          /\ used.riskTolerance = named.riskTolerance
          /\ used.adaptability = named.adaptability

\* C38: currentDifficulty is always one of unlockedDifficulties, also in a
\* manager that loadProgress filled from stored progress data and after
\* setDifficulty and resetProgress.
C38_CurrentDifficultyUnlocked ==
  isDifficultyUnlocked(dm, dm.currentDifficulty)

\* C39: in the battle of Sturdy and Rival, started with 4 hp each, as long as
\* every action of both sides was an attack or a special attack, each action
\* dealt at least 1 damage, the two hp together are at most the initial sum
\* less the number of actions, and once 4 + 4 - 1 actions were taken the
\* battle is won or lost.
C39_OffensiveBattleEnds ==
  LET acts == SelectSeq(currentBattle.battleLog, LAMBDA e : e.type = "action")
      offensive == \A i \in 1..Len(acts) : acts[i].actionType \in {"attack", "special"}
      initialHp == Sturdy.hp + Rival.hp
  IN (currentBattle.id # 0 /\ offensive)
       => /\ \A i \in 1..Len(acts) : acts[i].damage >= 1
          /\ currentBattle.playerCreature.hp + currentBattle.opponentCreature.hp
               <= initialHp - Len(acts)
          /\ Len(acts) >= initialHp - 1 => Terminal(currentBattle)

\* a battle that ended with its seventh action, none of them a defend
C39_Witness ==
  LET acts == SelectSeq(currentBattle.battleLog, LAMBDA e : e.type = "action")
  IN /\ Terminal(currentBattle)
     /\ Len(acts) = Sturdy.hp + Rival.hp - 1
     /\ \A i \in 1..Len(acts) : acts[i].actionType \in {"attack", "special"}
     /\ \E i \in 1..Len(acts) : acts[i].actionType = "special"

\* C40: when the callback of an AI action runs BattleEngine.executeAIAction
\* and the engine executes an action, the battle it acts on is the battle
\* during which that AI action was scheduled.
C40_AIActionOnItsBattle ==
  (ui.fired.kind = "act" /\ call = "executeAIAction" /\ error = "")
    => ui.fired.battle = currentBattle.id
====
